---- MODULE Spec2Model ----
(***************************************************************************)
(* StatBlocker: the derived-statistics engine (ability scores, challenge   *)
(* rating, hit-point target) and the macro resolution of characteristic    *)
(* text.  Each part has its own specification (SpecAbility, SpecChallenge, *)
(* SpecMacro, SpecDice): an object drawn from a bounded family, the calls  *)
(* made on it one at a time, and the outcome of the last call.             *)
(* Python values are modelled as follows:                                  *)
(*   - an Enum member is the string of its name;                           *)
(*   - a dict is a function whose DOMAIN is the set of the dict's keys;    *)
(*   - an optional int is a sequence, << >> for None and <<n>> for n;      *)
(*   - a call's outcome is a record [status, exc, value]: status is        *)
(*     "return" (value is the int returned), "none" (the call returned     *)
(*     None) or "raise" (exc names the exception).                         *)
(***************************************************************************)
EXTENDS Integers, Sequences, FiniteSets, TLC

VARIABLES
    proficiency_bonus,   \* AbilityScores.proficiency_bonus
    scores,              \* AbilityScores.scores: dict[Ability, int]
    proficiency_levels,  \* AbilityScores.proficiency_levels: dict[Ability, Proficiency]
    ret,                 \* the last call on the AbilityScores object and its outcome
    rating,              \* ChallengeRating.rating, the fraction [num, den] in lowest terms
    has_lair,            \* ChallengeRating.has_lair
    size,                \* StatBlock.size, as the set of its members
    cr_ret,              \* the last call on the challenge rating and its outcome
    monster_name,        \* CombatCharacteristic.monster_name, as its words
    title,               \* CombatCharacteristic.title, as its tokens
    description,         \* CombatCharacteristic.description, as its tokens
    num_legendary_resistances,         \* CombatCharacteristic field, optional int
    legendary_resistances_lair_bonus,  \* CombatCharacteristic field, optional int
    macro_ret,           \* the last call on the characteristic and its outcome
    df,                  \* MonsterManual2024Database._df, the sequence of its rows
    query_ret,           \* the last query on the database and its outcome
    obj,                 \* the component or characteristic that is persisted
    persist_ret,         \* the last construction or persistence call and its outcome
    stat_block,          \* the StatBlock that is rendered
    render_ret,          \* the last rendering call and its outcome
    editor,              \* the widgets of the editor (view/main_view.py)
    listed               \* the characteristics listed in the editor

abilityVars == <<proficiency_bonus, scores, proficiency_levels, ret>>

challengeVars == <<rating, has_lair, size, cr_ret>>

characteristicVars ==
    <<monster_name, title, description, num_legendary_resistances,
      legendary_resistances_lair_bonus>>

macroVars == <<characteristicVars, macro_ret>>

queryVars == <<df, query_ret>>

persistVars == <<obj, persist_ret>>

renderVars == <<stat_block, render_ret>>

editorVars == <<editor, listed>>

documentVars == <<queryVars, persistVars, renderVars, editorVars>>

vars == <<abilityVars, challengeVars, macroVars, documentVars>>

(***************************************************************************)
(* Bounds of the model.                                                    *)
(***************************************************************************)
\* calculate_ability_modifier is applied to every score in -MaxScore..MaxScore
MaxScore == 30
\* the dicts of an AbilityScores object hold entries for (a subset of) the
\* first MaxConfigured abilities in the order of the Ability enum
MaxConfigured == 1
\* the bonus argument ranges over None and -MaxBonus..MaxBonus
MaxBonus == 1
\* AbilityScores.proficiency_bonus ranges over MinProfBonus..MaxProfBonus
MaxProfBonus == 3
\* the lowest proficiency bonus of the band table
MinProfBonus == 2

\* ChallengeRating.rating ranges over the fractions from -1 to MaxRating whose
\* denominator is in Denominators
MaxRating == 31
\* StatBlock.size holds at most MaxSizes sizes
MaxSizes == 1
\* a description is made of at most MaxSegments segments of SegmentVocabulary
MaxSegments == 2
\* a dice expression NdM rolls at most MaxDice dice
MaxDice == 2

\* the scores an entry of AbilityScores.scores is drawn from: an odd score
\* below 10, the default score, an odd and an even score above 10
ScoreSamples == {7, 10, 13, 18}

(***************************************************************************)
(* Enums (data/enums.py)                                                   *)
(***************************************************************************)
AbilityOrder ==
    <<"STRENGTH", "DEXTERITY", "CONSTITUTION", "INTELLIGENCE", "WISDOM", "CHARISMA">>

Ability == {AbilityOrder[i] : i \in 1..Len(AbilityOrder)}

Proficiency == {"NORMAL", "PROFICIENT", "EXPERTISE"}

Skill ==
    {"ATHLETICS", "ACROBATICS", "SLEIGHT_OF_HAND", "STEALTH", "ARCANA", "HISTORY",
     "INVESTIGATION", "NATURE", "RELIGION", "ANIMAL_HANDLING", "INSIGHT", "MEDICINE",
     "PERCEPTION", "SURVIVAL", "DECEPTION", "INTIMIDATION", "PERFORMANCE", "PERSUASION"}

associated_ability(skill) ==
    CASE skill = "ATHLETICS" -> "STRENGTH"
      [] skill \in {"ACROBATICS", "SLEIGHT_OF_HAND", "STEALTH"} -> "DEXTERITY"
      [] skill \in {"ARCANA", "HISTORY", "INVESTIGATION", "NATURE", "RELIGION"} ->
            "INTELLIGENCE"
      [] skill \in {"ANIMAL_HANDLING", "INSIGHT", "MEDICINE", "PERCEPTION", "SURVIVAL"} ->
            "WISDOM"
      [] skill \in {"DECEPTION", "INTIMIDATION", "PERFORMANCE", "PERSUASION"} ->
            "CHARISMA"

Size == {"TINY", "SMALL", "MEDIUM", "LARGE", "HUGE", "GARGANTUAN"}

\* Die: a member is modelled by its value
Die == {4, 6, 8, 10, 12, 20}

RollType == {"NORMAL", "AVERAGE", "MIN", "MAX"}

(***************************************************************************)
(* Python helpers                                                          *)
(***************************************************************************)
\* dict.get(key, default)
DictGet(d, key, default) == IF key \in DOMAIN d THEN d[key] ELSE default

\* abs(n)
Abs(n) == IF n < 0 THEN -n ELSE n

\* math.floor(float(n / d)) for ints n and d > 0: the largest integer k with k*d <= n
math_floor_div(n, d) == n \div d

\* math.ceil(n / d) for ints n and d > 0
math_ceil_div(n, d) == -((-n) \div d)

\* outcomes of a call
Return(v) == [status |-> "return", exc |-> "", value |-> v]
ReturnNone == [status |-> "none", exc |-> "", value |-> 0]
Raise(e) == [status |-> "raise", exc |-> e, value |-> 0]

(***************************************************************************)
(* data/ability_scores.py                                                  *)
(***************************************************************************)
StatCodes == {"STR", "DEX", "CON", "INT", "WIS", "CHA"}

STAT_STR_TO_ABILITY ==
    [c \in StatCodes |->
        CASE c = "STR" -> "STRENGTH"
          [] c = "DEX" -> "DEXTERITY"
          [] c = "CON" -> "CONSTITUTION"
          [] c = "INT" -> "INTELLIGENCE"
          [] c = "WIS" -> "WISDOM"
          [] c = "CHA" -> "CHARISMA"]

\* a plausible slip: int((score - 10) / 2), which truncates toward zero
calculate_ability_modifier_trunc(score) ==
    IF score - 10 >= 0 THEN (score - 10) \div 2 ELSE -((10 - score) \div 2)

calculate_ability_modifier(score) == math_floor_div(score - 10, 2)

modifier_display_str(modifier) ==
    IF modifier >= 0 THEN "+" \o ToString(modifier) ELSE ToString(modifier)

\* an AbilityScores object
AbilityScores(pb, sc, pl) ==
    [proficiency_bonus |-> pb, scores |-> sc, proficiency_levels |-> pl]

\* a plausible slip: Expertise counted once, like Proficient
calculate_save_flat(self, ability) ==
    LET modifier == calculate_ability_modifier(DictGet(self.scores, ability, 10))
        level == DictGet(self.proficiency_levels, ability, "NORMAL")
    IN  modifier + (IF level = "NORMAL" THEN 0 ELSE self.proficiency_bonus)

\* a plausible slip: a missing score read as 0 (scores.get(ability, 0))
calculate_save_default0(self, ability) ==
    LET modifier == calculate_ability_modifier(DictGet(self.scores, ability, 0))
        level == DictGet(self.proficiency_levels, ability, "NORMAL")
    IN  modifier + (CASE level = "NORMAL" -> 0
                      [] level = "PROFICIENT" -> self.proficiency_bonus
                      [] level = "EXPERTISE" -> self.proficiency_bonus * 2)

calculate_save(self, ability) ==
    LET modifier == calculate_ability_modifier(DictGet(self.scores, ability, 10))
        level == DictGet(self.proficiency_levels, ability, "NORMAL")
        prof_bonus ==
            CASE level = "NORMAL" -> 0
              [] level = "PROFICIENT" -> self.proficiency_bonus
              [] level = "EXPERTISE" -> self.proficiency_bonus * 2
              [] OTHER -> 0
    IN  modifier + prof_bonus

get_skill_modifier(self, skill, bonus) ==
    calculate_ability_modifier(DictGet(self.scores, associated_ability(skill), 10))
        + bonus

\* the <ability>_score properties
ability_score(self, ability) == DictGet(self.scores, ability, 10)

\* the <ability>_modifier properties
ability_modifier(self, ability) ==
    calculate_ability_modifier(ability_score(self, ability))

saving_throws(self) ==
    [ability \in Ability |-> DictGet(self.proficiency_levels, ability, "NORMAL")]

\* the signed bonus of calculate_stat_operation (lines 216-224); sign is "None"
\* for None, bonus is << >> for None
\* a plausible slip: the bonus taken with its own sign under "+"
calced_bonus_noabs(sign, bonus) ==
    IF sign \notin {"None", ""} /\ bonus # << >>
    THEN CASE sign = "+" -> Return(bonus[1])
           [] sign = "-" -> Return(-bonus[1])
           [] OTHER -> Raise("NotImplementedError")
    ELSE Return(0)

calced_bonus(sign, bonus) ==
    IF sign \notin {"None", ""} /\ bonus # << >>
    THEN CASE sign = "+" -> Return(Abs(bonus[1]))
           [] sign = "-" -> Return(-Abs(bonus[1]))
           [] OTHER -> Raise("NotImplementedError")
    ELSE Return(0)

\* a plausible slip: SPELLSAVE given the bonus term of the other operations
calculate_stat_operation_spellbonus(self, stat, operation, sign, bonus) ==
    IF stat \notin DOMAIN STAT_STR_TO_ABILITY THEN Raise("KeyError")
    ELSE
    LET ability == STAT_STR_TO_ABILITY[stat]
        ability_mod == calculate_ability_modifier(DictGet(self.scores, ability, 10))
        cb == calced_bonus(sign, bonus)
    IN  IF cb.status = "raise" THEN cb
        ELSE CASE operation = "ATK" ->
                    Return(self.proficiency_bonus + ability_mod + cb.value)
               [] operation = "SAVE" ->
                    Return(calculate_save(self, ability) + cb.value)
               [] operation = "SPELLSAVE" ->
                    Return(8 + self.proficiency_bonus + ability_mod + cb.value)
               [] OTHER -> ReturnNone

calculate_stat_operation(self, stat, operation, sign, bonus) ==
    IF stat \notin DOMAIN STAT_STR_TO_ABILITY THEN Raise("KeyError")
    ELSE
    LET ability == STAT_STR_TO_ABILITY[stat]
        ability_mod == calculate_ability_modifier(DictGet(self.scores, ability, 10))
        cb == calced_bonus(sign, bonus)
    IN  IF cb.status = "raise" THEN cb
        ELSE CASE operation = "ATK" ->
                    Return(self.proficiency_bonus + ability_mod + cb.value)
               [] operation = "SAVE" ->
                    Return(calculate_save(self, ability) + cb.value)
               [] operation = "SPELLSAVE" ->
                    Return(8 + self.proficiency_bonus + ability_mod)
               [] OTHER -> ReturnNone

(***************************************************************************)
(* data/challenge_rating.py, data/stat_block.py                            *)
(* A rating is the fraction num/den, den > 0, in lowest terms: the floats  *)
(* the editor holds (1/8, 1/4, 1/2, 4.5, ...) are such fractions exactly.  *)
(***************************************************************************)
Fraction(n, d) == [num |-> n, den |-> d]

\* r >= k, r <= k and r < k for a rating r and an int k
RatingGe(r, k) == r.num >= k * r.den
RatingLe(r, k) == r.num <= k * r.den
RatingLt(r, k) == r.num < k * r.den

ChallengeRating(r, lair) == [rating |-> r, has_lair |-> lair]

ProficiencyBonus(cr) ==
    LET r == cr.rating
    IN  CASE RatingGe(r, 0) /\ RatingLe(r, 4) -> Return(2)
          [] RatingGe(r, 5) /\ RatingLe(r, 8) -> Return(3)
          [] RatingGe(r, 9) /\ RatingLe(r, 12) -> Return(4)
          [] RatingGe(r, 13) /\ RatingLe(r, 16) -> Return(5)
          [] RatingGe(r, 17) /\ RatingLe(r, 20) -> Return(6)
          [] RatingGe(r, 21) /\ RatingLe(r, 24) -> Return(7)
          [] RatingGe(r, 25) /\ RatingLe(r, 28) -> Return(8)
          [] RatingGe(r, 29) /\ RatingLe(r, 30) -> Return(9)
          [] OTHER -> Raise("NotImplementedError")

\* math.ceil(k * math.sqrt(n / d)) for n >= 0: the least h with h >= k * sqrt(n/d),
\* that is with h*h*d >= k*k*n
math_ceil_scaled_sqrt(k, n, d) ==
    CHOOSE h \in 0..(k * (n + 1)) :
        /\ h * h * d >= k * k * n
        /\ \A g \in 0..(h - 1) : g * g * d < k * k * n

\* a plausible slip: math.floor in place of math.ceil below rating 1
hit_point_target_floor(cr) ==
    LET r == cr.rating
    IN  IF RatingLt(r, 1)
        THEN IF r.num < 0 THEN Raise("ValueError")
             ELSE Return(CHOOSE h \in 0..30 :
                            /\ h * h * r.den <= 900 * r.num
                            /\ (h + 1) * (h + 1) * r.den > 900 * r.num)
        ELSE IF RatingGe(r, 1) /\ RatingLe(r, 19)
        THEN Return(math_ceil_div(15 * (r.num + r.den), r.den))
        ELSE Return(math_ceil_div(45 * (r.num - 13 * r.den), r.den))

\* the hit-point target hp of StatBlock.hit_points_str
hit_point_target(cr) ==
    LET r == cr.rating
    IN  IF RatingLt(r, 1)
        THEN IF r.num < 0 THEN Raise("ValueError")   \* math.sqrt of a negative
             ELSE Return(math_ceil_scaled_sqrt(30, r.num, r.den))
        ELSE IF RatingGe(r, 1) /\ RatingLe(r, 19)
        THEN Return(math_ceil_div(15 * (r.num + r.den), r.den))
        ELSE Return(math_ceil_div(45 * (r.num - 13 * r.den), r.den))

\* the greatest common divisor of a >= 0 and b > 0
RECURSIVE gcd(_, _)
gcd(a, b) == IF b = 0 THEN a ELSE gcd(b, a % b)

\* float.as_integer_ratio: the pair in lowest terms with a positive denominator
as_integer_ratio(r) ==
    LET g == gcd(Abs(r.num), r.den)
    IN  <<r.num \div g, r.den \div g>>

\* f"{n:,}" for n >= 0: groups of three digits separated by commas
RECURSIVE format_thousands(_)
format_thousands(n) ==
    IF n < 1000 THEN ToString(n)
    ELSE LET low == n % 1000
         IN  format_thousands(n \div 1000) \o ","
                \o (IF low < 10 THEN "00" ELSE IF low < 100 THEN "0" ELSE "")
                \o ToString(low)

\* constants.CR_EXPERIENCE_POINTS: the ratings 0, 1/8, 1/4, 1/2 and 1..30
ExperienceByRating ==
    <<200, 450, 700, 1100, 1800, 2300, 2900, 3900, 5000, 5900,
      7200, 8400, 10000, 11500, 13000, 15000, 18000, 20000, 22000, 25000,
      33000, 41000, 50000, 62000, 75000, 90000, 105000, 120000, 135000, 155000>>

CR_EXPERIENCE_POINTS(r) ==
    CASE r = Fraction(0, 1) -> Return(10)
      [] r = Fraction(1, 8) -> Return(25)
      [] r = Fraction(1, 4) -> Return(50)
      [] r = Fraction(1, 2) -> Return(100)
      [] r.den = 1 /\ r.num \in 1..Len(ExperienceByRating) ->
            Return(ExperienceByRating[r.num])
      [] OTHER -> Raise("KeyError")

\* ChallengeRating.lair_rating
lair_rating(cr) == Fraction(cr.rating.num + cr.rating.den, cr.rating.den)

\* ChallengeRating.experience_points and ChallengeRating.lair_xp
experience_points(cr) == CR_EXPERIENCE_POINTS(cr.rating)
lair_xp(cr) == CR_EXPERIENCE_POINTS(lair_rating(cr))

\* the text of the rating: "n" or "n/d" for a float, str(rating) for an int
rating_str(cr, is_float) ==
    IF is_float
    THEN LET ratio == as_integer_ratio(cr.rating)
         IN  IF ratio[2] = 1 THEN ToString(ratio[1])
             ELSE ToString(ratio[1]) \o "/" \o ToString(ratio[2])
    ELSE ToString(cr.rating.num)

(***************************************************************************)
(* The AbilityScores object under test and the calls made on it.           *)
(***************************************************************************)
\* all dicts with keys in Keys and values in Vals
Dicts(Keys, Vals) == UNION {[D -> Vals] : D \in SUBSET Keys}

ConfiguredAbilities == {AbilityOrder[i] : i \in 1..MaxConfigured}

self == AbilityScores(proficiency_bonus, scores, proficiency_levels)

NoTiers == [a \in {} |-> "NORMAL"]

\* a call record: the function called, its arguments and its outcome; tiers
\* carries the dict a saving_throws call returns
Call(fn, ability, skill, stat, operation, sign, bonus, score, out, tiers) ==
    [fn |-> fn, ability |-> ability, skill |-> skill, stat |-> stat,
     operation |-> operation, sign |-> sign, bonus |-> bonus, score |-> score,
     out |-> out, tiers |-> tiers]

NoCall == Call("", "", "", "", "", "None", << >>, 0, ReturnNone, NoTiers)

\* a call record on the challenge rating
CrCall(fn, out) == [fn |-> fn, out |-> out]

NoCrCall == CrCall("", ReturnNone)

\* the variables of the ability model while another part is exercised
AbilityIdle ==
    /\ proficiency_bonus = MinProfBonus
    /\ scores = [a \in {} |-> 10]
    /\ proficiency_levels = NoTiers
    /\ ret = NoCall

\* the variables of the challenge rating while another part is exercised
ChallengeIdle ==
    /\ rating = Fraction(0, 1)
    /\ has_lair = FALSE
    /\ size = {}
    /\ cr_ret = NoCrCall

\* a call record on a characteristic: for Die.roll the die, the number of dice
\* and the roll type
MacroCall(fn, die, num_dice, roll_type, out) ==
    [fn |-> fn, die |-> die, num_dice |-> num_dice, roll_type |-> roll_type,
     out |-> out]

\* outcomes of a call that returns text (a sequence of tokens) or an int
TextReturn(t) ==
    [status |-> "return", exc |-> "", text |-> t, offending |-> "", value |-> 0]
IntReturn(v) ==
    [status |-> "return", exc |-> "", text |-> << >>, offending |-> "", value |-> v]
TextRaise(e, offending) ==
    [status |-> "raise", exc |-> e, text |-> << >>, offending |-> offending,
     value |-> 0]

NoMacroCall == MacroCall("", 0, 0, "", TextReturn(<< >>))

\* the variables of the characteristic while another part is exercised
MacroIdle ==
    /\ monster_name = << >>
    /\ title = << >>
    /\ description = << >>
    /\ num_legendary_resistances = << >>
    /\ legendary_resistances_lair_bonus = << >>
    /\ macro_ret = NoMacroCall

\* no call made yet on the database, the persisted object, the rendered stat
\* block
NoDocumentCall == [fn |-> ""]

\* no object built yet
NoObject == [cls |-> ""]

\* the variables of the database while another part is exercised
QueryIdle == df = << >> /\ query_ret = NoDocumentCall

\* the variables of persistence while another part is exercised
PersistIdle == obj = NoObject /\ persist_ret = NoDocumentCall

\* the variables of rendering while another part is exercised
RenderIdle == stat_block = NoObject /\ render_ret = NoDocumentCall

\* the variables of the editor while another part is exercised
EditorIdle == editor = NoObject /\ listed = << >>

DocumentIdle == QueryIdle /\ PersistIdle /\ RenderIdle /\ EditorIdle

InitAbility ==
    /\ proficiency_bonus \in MinProfBonus..MaxProfBonus
    /\ scores \in Dicts(ConfiguredAbilities, ScoreSamples)
    /\ proficiency_levels \in Dicts(ConfiguredAbilities, Proficiency)
    /\ ret = NoCall
    /\ ChallengeIdle
    /\ MacroIdle
    /\ DocumentIdle

Signs == {"None", "", "+", "-", "*"}
Bonuses == {<< >>} \cup {<<b>> : b \in (-MaxBonus)..MaxBonus}
Operations == {"ATK", "SAVE", "SPELLSAVE", "DC"}
Stats == StatCodes \cup {"LUK"}

CallCalculateAbilityModifier(score) ==
    /\ ret = NoCall
    /\ ret' = Call("calculate_ability_modifier", "", "", "", "", "None", << >>, score,
                   Return(calculate_ability_modifier(score)), NoTiers)
    /\ UNCHANGED <<proficiency_bonus, scores, proficiency_levels, challengeVars, macroVars, documentVars>>

CallCalculateSave(ability) ==
    /\ ret = NoCall
    /\ ret' = Call("_calculate_save", ability, "", "", "", "None", << >>, 0,
                   Return(calculate_save(self, ability)), NoTiers)
    /\ UNCHANGED <<proficiency_bonus, scores, proficiency_levels, challengeVars, macroVars, documentVars>>

CallGetSkillModifier(skill, bonus) ==
    /\ ret = NoCall
    /\ ret' = Call("get_skill_modifier", "", skill, "", "", "None", <<bonus>>, 0,
                   Return(get_skill_modifier(self, skill, bonus)), NoTiers)
    /\ UNCHANGED <<proficiency_bonus, scores, proficiency_levels, challengeVars, macroVars, documentVars>>

CallAbilityScore(ability) ==
    /\ ret = NoCall
    /\ ret' = Call("score", ability, "", "", "", "None", << >>, 0,
                   Return(ability_score(self, ability)), NoTiers)
    /\ UNCHANGED <<proficiency_bonus, scores, proficiency_levels, challengeVars, macroVars, documentVars>>

CallAbilityModifier(ability) ==
    /\ ret = NoCall
    /\ ret' = Call("modifier", ability, "", "", "", "None", << >>, 0,
                   Return(ability_modifier(self, ability)), NoTiers)
    /\ UNCHANGED <<proficiency_bonus, scores, proficiency_levels, challengeVars, macroVars, documentVars>>

CallSavingThrows ==
    /\ ret = NoCall
    /\ ret' = Call("saving_throws", "", "", "", "", "None", << >>, 0,
                   ReturnNone, saving_throws(self))
    /\ UNCHANGED <<proficiency_bonus, scores, proficiency_levels, challengeVars, macroVars, documentVars>>

CallCalculateStatOperation(stat, operation, sign, bonus) ==
    /\ ret = NoCall
    /\ ret' = Call("calculate_stat_operation", "", "", stat, operation, sign, bonus, 0,
                   calculate_stat_operation(self, stat, operation, sign, bonus), NoTiers)
    /\ UNCHANGED <<proficiency_bonus, scores, proficiency_levels, challengeVars, macroVars, documentVars>>

\* the caller takes the outcome; the object is ready for the next call
ReturnToCaller ==
    /\ ret # NoCall
    /\ ret' = NoCall
    /\ UNCHANGED <<proficiency_bonus, scores, proficiency_levels, challengeVars, macroVars, documentVars>>

NextAbility ==
    \/ ReturnToCaller
    \/ \E score \in (-MaxScore)..MaxScore : CallCalculateAbilityModifier(score)
    \/ \E ability \in Ability : CallCalculateSave(ability)
    \/ \E skill \in Skill, bonus \in (-MaxBonus)..MaxBonus :
            CallGetSkillModifier(skill, bonus)
    \/ \E ability \in Ability : CallAbilityScore(ability)
    \/ \E ability \in Ability : CallAbilityModifier(ability)
    \/ CallSavingThrows
    \/ \E stat \in Stats, operation \in Operations, sign \in Signs, bonus \in Bonuses :
            CallCalculateStatOperation(stat, operation, sign, bonus)

SpecAbility == InitAbility /\ [][NextAbility]_vars

(***************************************************************************)
(* Properties of the ability model                                         *)
(***************************************************************************)
\* floor(n / 2), stated by its defining inequalities
FloorHalf(n) == CHOOSE k \in (-(Abs(n) + 1))..(Abs(n) + 1) : 2 * k <= n /\ n < 2 * k + 2

\* the tier multiplier of a saving throw
TierMultiplier(tier) ==
    CASE tier = "NORMAL" -> 0 [] tier = "PROFICIENT" -> 1 [] tier = "EXPERTISE" -> 2

\* the score and tier the object holds for an ability, 10 and Normal when absent
ScoreOf(ability) == IF ability \in DOMAIN scores THEN scores[ability] ELSE 10
TierOf(ability) ==
    IF ability \in DOMAIN proficiency_levels THEN proficiency_levels[ability]
    ELSE "NORMAL"

\* C1: for every integer score s the ability modifier is floor((s-10)/2), rounding
\* toward negative infinity for odd scores below 10; the scores 1, 10, 11, 20, 30
\* give -5, 0, 0, 5, 10.
C1_ModifierIsFloor ==
    ret.fn = "calculate_ability_modifier" =>
        LET s == ret.score
            m == ret.out.value
        IN  /\ ret.out.status = "return"
            /\ 2 * m <= s - 10
            /\ s - 10 < 2 * m + 2
            /\ (s = 1 => m = -5)
            /\ (s = 10 => m = 0)
            /\ (s = 11 => m = 0)
            /\ (s = 20 => m = 5)
            /\ (s = 30 => m = 10)

\* an odd score below 10 was rounded toward negative infinity
C1_Witness ==
    /\ ret.fn = "calculate_ability_modifier"
    /\ ret.score = 7
    /\ ret.out = Return(-2)

\* C2: the saving-throw bonus of an ability is modifier(score) + k * proficiency
\* bonus, k being 0 for Normal, 1 for Proficient and 2 for Expertise.
C2_SaveIsModifierPlusTier ==
    ret.fn = "_calculate_save" =>
        ret.out = Return(FloorHalf(ScoreOf(ret.ability) - 10)
                         + TierMultiplier(TierOf(ret.ability)) * proficiency_bonus)

\* the save of an ability held with Expertise and an odd score below 10
C2_Witness ==
    /\ ret.fn = "_calculate_save"
    /\ ret.ability \in DOMAIN scores
    /\ ret.ability \in DOMAIN proficiency_levels
    /\ scores[ret.ability] = 7
    /\ proficiency_levels[ret.ability] = "EXPERTISE"
    /\ ret.out = Return(2 * proficiency_bonus - 2)

\* the signed bonus a sign and a bonus stand for
SignedBonus(sign, bonus) ==
    CASE sign = "+" /\ bonus # << >> -> Abs(bonus[1])
      [] sign = "-" /\ bonus # << >> -> -Abs(bonus[1])
      [] OTHER -> 0

\* the calls of calculate_stat_operation with an ability code and a signed bonus
\* (the sign, when given, is "+" or "-")
SignedCall ==
    /\ ret.fn = "calculate_stat_operation"
    /\ ret.stat \in StatCodes
    /\ ret.sign \in {"None", "", "+", "-"}

\* C3: calculate_stat_operation returns ATK = proficiency bonus + modifier + signed
\* bonus, SAVE = save bonus + signed bonus and SPELLSAVE = 8 + proficiency bonus +
\* modifier, whatever sign and bonus were supplied with SPELLSAVE.
C3_StatOperationFormulas ==
    SignedCall =>
        LET ability == STAT_STR_TO_ABILITY[ret.stat]
            modifier == FloorHalf(ScoreOf(ability) - 10)
            save == modifier + TierMultiplier(TierOf(ability)) * proficiency_bonus
            signed == SignedBonus(ret.sign, ret.bonus)
        IN  /\ ret.operation = "ATK" =>
                    ret.out = Return(proficiency_bonus + modifier + signed)
            /\ ret.operation = "SAVE" => ret.out = Return(save + signed)
            /\ ret.operation = "SPELLSAVE" =>
                    ret.out = Return(8 + proficiency_bonus + modifier)

\* a SPELLSAVE computed with a sign and a non-zero bonus supplied
C3_Witness ==
    /\ SignedCall
    /\ ret.operation = "SPELLSAVE"
    /\ ret.sign = "-"
    /\ ret.bonus = <<1>>
    /\ ret.out.status = "return"

\* C4: the signed bonus calculate_stat_operation adds is |bonus| under sign "+",
\* -|bonus| under sign "-", and 0 when the sign or the bonus is absent, whatever the
\* sign of the number passed as bonus.  The bonus added is read off as the
\* difference to the same call made without sign and bonus.
C4_SignedBonusMagnitude ==
    (SignedCall /\ ret.operation \in {"ATK", "SAVE"}) =>
        LET plain ==
                calculate_stat_operation(self, ret.stat, ret.operation, "None", << >>)
            added == ret.out.value - plain.value
        IN  /\ ret.out.status = "return"
            /\ (ret.sign \in {"None", ""} \/ ret.bonus = << >>) => added = 0
            /\ (ret.sign = "+" /\ ret.bonus # << >>) =>
                    added >= 0 /\ added \in {ret.bonus[1], -ret.bonus[1]}
            /\ (ret.sign = "-" /\ ret.bonus # << >>) =>
                    added <= 0 /\ added \in {ret.bonus[1], -ret.bonus[1]}

\* a negative number passed with sign "+" was added as its magnitude
C4_Witness ==
    /\ SignedCall
    /\ ret.operation = "ATK"
    /\ ret.sign = "+"
    /\ ret.bonus = <<-1>>
    /\ ret.out =
         Return(calculate_stat_operation(self, ret.stat, "ATK", "None", << >>).value + 1)

\* C5: calculate_stat_operation called with an operation other than ATK, SAVE or
\* SPELLSAVE fails with an error; it never returns a value or None.
C5_UnknownOperationRaises ==
    (ret.fn = "calculate_stat_operation"
        /\ ret.operation \notin {"ATK", "SAVE", "SPELLSAVE"}) =>
        ret.out.status = "raise"

\* the object with every absent score set to 10 and every absent tier to Normal
Completed ==
    AbilityScores(proficiency_bonus,
                  [a \in Ability |-> ScoreOf(a)],
                  [a \in Ability |-> TierOf(a)])

\* the ability a call is about
CallAbility ==
    CASE ret.fn \in {"_calculate_save", "score", "modifier"} -> ret.ability
      [] ret.fn = "get_skill_modifier" -> associated_ability(ret.skill)
      [] ret.fn = "calculate_stat_operation" /\ ret.stat \in StatCodes ->
            STAT_STR_TO_ABILITY[ret.stat]
      [] OTHER -> ""

\* C6: when the score dict or the tier dict lacks an ability, every derived value
\* for it (score, modifier, save, skill bonus, stat operations, saving_throws tier)
\* is the one computed with score 10 and tier Normal, and no error is raised.
C6_MissingEntriesDefault ==
    /\ (CallAbility # ""
            /\ (CallAbility \notin DOMAIN scores
                    \/ CallAbility \notin DOMAIN proficiency_levels)) =>
          /\ ret.fn = "score" => ret.out = Return(ability_score(Completed, ret.ability))
          /\ ret.fn = "modifier" =>
                ret.out = Return(ability_modifier(Completed, ret.ability))
          /\ ret.fn = "_calculate_save" =>
                ret.out = Return(calculate_save(Completed, ret.ability))
          /\ ret.fn = "get_skill_modifier" =>
                ret.out = Return(get_skill_modifier(Completed, ret.skill, ret.bonus[1]))
          /\ ret.fn = "calculate_stat_operation" =>
                ret.out = calculate_stat_operation(Completed, ret.stat, ret.operation,
                                                   ret.sign, ret.bonus)
          /\ (ret.fn = "calculate_stat_operation"
                /\ ret.sign \in {"None", "", "+", "-"}) => ret.out.status # "raise"
          /\ (CallAbility \notin DOMAIN scores /\ ret.fn = "score") =>
                ret.out = Return(10)
          /\ (CallAbility \notin DOMAIN scores /\ ret.fn = "modifier") =>
                ret.out = Return(0)
          /\ (CallAbility \notin DOMAIN scores /\ ret.fn = "get_skill_modifier") =>
                ret.out = Return(ret.bonus[1])
          /\ (CallAbility \notin DOMAIN scores
                /\ CallAbility \notin DOMAIN proficiency_levels
                /\ ret.fn = "_calculate_save") => ret.out = Return(0)
    /\ ret.fn = "saving_throws" =>
          /\ DOMAIN ret.tiers = Ability
          /\ \A a \in Ability :
                ret.tiers[a] = IF a \in DOMAIN proficiency_levels
                               THEN proficiency_levels[a] ELSE "NORMAL"

\* a save was computed for an ability absent from both dicts
C6_Witness ==
    /\ ret.fn = "_calculate_save"
    /\ ret.ability \notin DOMAIN scores
    /\ ret.ability \notin DOMAIN proficiency_levels
    /\ ret.out = Return(0)

(***************************************************************************)
(* The challenge rating under test and the calls made on it.               *)
(***************************************************************************)
Denominators == {1, 2, 4, 8}

\* the fractions in lowest terms from -1 to MaxRating
Ratings ==
    {Fraction(n, d) : <<n, d>> \in
        {nd \in ((-8)..(8 * MaxRating)) \X Denominators :
            /\ nd[1] >= -nd[2]
            /\ nd[1] <= MaxRating * nd[2]
            /\ (nd[2] > 1 => nd[1] % 2 = 1)}}

InitChallenge ==
    /\ rating \in Ratings
    /\ has_lair \in BOOLEAN
    /\ size \in {sz \in SUBSET Size : Cardinality(sz) <= MaxSizes}
    /\ cr_ret = NoCrCall
    /\ AbilityIdle
    /\ MacroIdle
    /\ DocumentIdle

CallProficiencyBonus ==
    /\ cr_ret = NoCrCall
    /\ cr_ret' = CrCall("proficiency_bonus",
                        ProficiencyBonus(ChallengeRating(rating, has_lair)))
    /\ UNCHANGED <<rating, has_lair, size, abilityVars, macroVars, documentVars>>

\* StatBlock.hit_points_str up to the hit-point target: "" without a size
CallHitPointTarget ==
    /\ cr_ret = NoCrCall
    /\ cr_ret' = CrCall("hit_point_target",
                        IF size # {}
                        THEN hit_point_target(ChallengeRating(rating, has_lair))
                        ELSE [status |-> "empty", exc |-> "", value |-> 0])
    /\ UNCHANGED <<rating, has_lair, size, abilityVars, macroVars, documentVars>>

\* a plausible slip: the lair experience looked up whether or not there is a lair
display_str_lair_always(cr, is_float) ==
    LET xp == experience_points(cr)
        lair == lair_xp(cr)
        pb == ProficiencyBonus(cr)
    IN  IF xp.status = "raise" THEN TextRaise(xp.exc, "")
        ELSE IF lair.status = "raise" THEN TextRaise(lair.exc, "")
        ELSE IF pb.status = "raise" THEN TextRaise(pb.exc, "")
        ELSE TextReturn(<<rating_str(cr, is_float), " (XP ", format_thousands(xp.value)>>
                        \o (IF cr.has_lair
                            THEN <<", or ", format_thousands(lair.value), " in lair">>
                            ELSE << >>)
                        \o <<"; PB +", ToString(pb.value), ")">>)

\* ChallengeRating.display_str: the f-string reads experience_points, then lair_xp
\* when has_lair, then proficiency_bonus
display_str(cr, is_float) ==
    LET xp == experience_points(cr)
        lair == IF cr.has_lair THEN lair_xp(cr) ELSE Return(0)
        pb == ProficiencyBonus(cr)
    IN  IF xp.status = "raise" THEN TextRaise(xp.exc, "")
        ELSE IF lair.status = "raise" THEN TextRaise(lair.exc, "")
        ELSE IF pb.status = "raise" THEN TextRaise(pb.exc, "")
        ELSE TextReturn(<<rating_str(cr, is_float), " (XP ", format_thousands(xp.value)>>
                        \o (IF cr.has_lair
                            THEN <<", or ", format_thousands(lair.value), " in lair">>
                            ELSE << >>)
                        \o <<"; PB +", ToString(pb.value), ")">>)

\* display_str of a rating held as a float, or as an int when it is integral
CallDisplayStr ==
    /\ cr_ret = NoCrCall
    /\ \E is_float \in BOOLEAN :
        /\ (~is_float => rating.den = 1)
        /\ cr_ret' = CrCall("display_str",
                            display_str(ChallengeRating(rating, has_lair), is_float))
    /\ UNCHANGED <<rating, has_lair, size, abilityVars, macroVars, documentVars>>

CrReturnToCaller ==
    /\ cr_ret # NoCrCall
    /\ cr_ret' = NoCrCall
    /\ UNCHANGED <<rating, has_lair, size, abilityVars, macroVars, documentVars>>

NextChallenge ==
    \/ CallProficiencyBonus
    \/ CallHitPointTarget
    \/ CallDisplayStr
    \/ CrReturnToCaller

SpecChallenge == InitChallenge /\ [][NextChallenge]_vars

(***************************************************************************)
(* Properties of the challenge rating                                      *)
(***************************************************************************)
RatingIs(n, d) == rating = Fraction(n, d)

InRange == RatingGe(rating, 0) /\ RatingLe(rating, 30)

\* C7: proficiency_bonus is defined exactly on the ratings within [0,30]: every such
\* rating, integer or fraction, maps to one tier in 2..9 (4 -> 2, 5 -> 3, 20 -> 6,
\* 21 -> 7, 30 -> 9), and a rating outside [0,30] raises an error.
C7_DefinedExactlyOnRange ==
    cr_ret.fn = "proficiency_bonus" =>
        /\ InRange =>
              /\ cr_ret.out.status = "return"
              /\ cr_ret.out.value \in 2..9
        /\ ~InRange => cr_ret.out.status = "raise"
        /\ RatingIs(4, 1) => cr_ret.out = Return(2)
        /\ RatingIs(5, 1) => cr_ret.out = Return(3)
        /\ RatingIs(20, 1) => cr_ret.out = Return(6)
        /\ RatingIs(21, 1) => cr_ret.out = Return(7)
        /\ RatingIs(30, 1) => cr_ret.out = Return(9)

\* the hit-point target of the rating is ceil(k * sqrt(rating)): the least h with
\* h >= k * sqrt(num/den)
IsCeilScaledSqrt(h, k) ==
    /\ h >= 0
    /\ h * h * rating.den >= k * k * rating.num
    /\ h > 0 => (h - 1) * (h - 1) * rating.den < k * k * rating.num

\* h is ceil(k * (rating + c)): h >= k * (rating + c) > h - 1
IsCeilLinear(h, k, c) ==
    LET x == k * (rating.num + c * rating.den)
    IN  h * rating.den >= x /\ (h - 1) * rating.den < x

HitPointFormula(h) ==
    /\ RatingLt(rating, 1) => IsCeilScaledSqrt(h, 30)
    /\ (RatingGe(rating, 1) /\ RatingLe(rating, 19)) => IsCeilLinear(h, 15, 1)
    /\ ~RatingLe(rating, 19) => IsCeilLinear(h, 45, -13)

HitPointCall ==
    cr_ret.fn = "hit_point_target" /\ size # {} /\ RatingGe(rating, 0)

\* C8 as stated: the hit-point target is ceil(30 sqrt r) for r < 1, ceil(15 (r+1))
\* for 1 <= r <= 19 and ceil(45 (r-13)) for r > 19; r = 0.5 gives 21, r = 5 gives
\* 90 and r = 20 gives 315.
C8_Original ==
    HitPointCall =>
        /\ cr_ret.out.status = "return"
        /\ HitPointFormula(cr_ret.out.value)
        /\ RatingIs(1, 2) => cr_ret.out.value = 21
        /\ RatingIs(5, 1) => cr_ret.out.value = 90
        /\ RatingIs(20, 1) => cr_ret.out.value = 315

\* C8, amended: the same three formulas for a rating r >= 0; r = 0.5 gives 22
\* (30 sqrt 0.5 = 21.2...), r = 5 gives 90 and r = 20 gives 315.
C8_HitPointTarget ==
    HitPointCall =>
        /\ cr_ret.out.status = "return"
        /\ HitPointFormula(cr_ret.out.value)
        /\ RatingIs(1, 2) => cr_ret.out.value = 22
        /\ RatingIs(5, 1) => cr_ret.out.value = 90
        /\ RatingIs(20, 1) => cr_ret.out.value = 315

\* the hit-point target of rating 1/2 was computed
C8_Witness ==
    /\ cr_ret.fn = "hit_point_target"
    /\ size # {}
    /\ RatingIs(1, 2)
    /\ cr_ret.out = Return(22)

\* the ratings of the experience table
TableRating(r) == r \in {Fraction(0, 1), Fraction(1, 8), Fraction(1, 4), Fraction(1, 2)}
                    \/ (r.den = 1 /\ r.num \in 1..30)

\* C22: display_str renders a fractional rating as its reduced fraction (1/2, 1/4,
\* 1/8) and an integral rating as an integer, followed by the experience points of
\* the exact rating, the proficiency bonus, and the lair experience points of
\* rating + 1 exactly when has_lair is set: without a lair rating + 1 is not looked
\* up, so rating 30 is displayed.
C22_DisplayStr ==
    cr_ret.fn = "display_str" =>
        LET out == cr_ret.out
            shown == out.text
        IN  /\ out.status = "return" =>
                /\ RatingIs(1, 2) => shown[1] = "1/2"
                /\ RatingIs(1, 4) => shown[1] = "1/4"
                /\ RatingIs(1, 8) => shown[1] = "1/8"
                /\ rating.den = 1 => shown[1] = ToString(rating.num)
                /\ shown[2] = " (XP "
                /\ RatingIs(1, 2) => shown[3] = "100"
                /\ RatingIs(5, 1) => shown[3] = "1,800"
                /\ RatingIs(30, 1) => shown[3] = "155,000"
                /\ shown[Len(shown) - 2] = "; PB +"
                /\ RatingIs(5, 1) => shown[Len(shown) - 1] = "3"
                /\ has_lair <=> Len(shown) = 9
                /\ ~has_lair <=> Len(shown) = 6
                /\ (has_lair /\ RatingIs(4, 1)) => shown[5] = "1,800"
                /\ (has_lair /\ RatingIs(0, 1)) => shown[5] = "200"
            /\ out.status = "return" <=>
                    /\ TableRating(rating)
                    /\ has_lair => TableRating(Fraction(rating.num + rating.den,
                                                         rating.den))

\* rating 30 without a lair is displayed, although rating 31 is in no table
C22_Witness ==
    /\ cr_ret.fn = "display_str"
    /\ RatingIs(30, 1)
    /\ ~has_lair
    /\ cr_ret.out.status = "return"
    /\ cr_ret.out.text = <<"30", " (XP ", "155,000", "; PB +", "9", ")">>

(***************************************************************************)
(* Die.roll (data/enums.py)                                                *)
(***************************************************************************)
\* a plausible slip: the average rounded up (math.ceil)
DieRoll_ceil(die, num_dice, roll_type) ==
    CASE roll_type = "NORMAL" -> num_dice..(num_dice * die)
      [] roll_type = "MIN" -> {num_dice * 1}
      [] roll_type = "MAX" -> {num_dice * die}
      [] roll_type = "AVERAGE" -> {math_ceil_div((die + 1) * num_dice, 2)}

\* the values Die.roll can return: avg_value is (value + 1) / 2, min_value is 1,
\* max_value is value; NORMAL sums num_dice draws of randint(1, value)
DieRoll(die, num_dice, roll_type) ==
    CASE roll_type = "NORMAL" -> num_dice..(num_dice * die)
      [] roll_type = "MIN" -> {num_dice * 1}
      [] roll_type = "MAX" -> {num_dice * die}
      [] roll_type = "AVERAGE" -> {math_floor_div((die + 1) * num_dice, 2)}

\* the value of a deterministic roll
DieRollValue(die, num_dice, roll_type) ==
    CHOOSE v \in DieRoll(die, num_dice, roll_type) : TRUE

(***************************************************************************)
(* Text.  A str is modelled by the sequence of its tokens: words, the      *)
(* brackets "[" and "]" of a directive, and the period ".".                *)
(***************************************************************************)
\* " ".join(tokens)
RECURSIVE Join(_)
Join(tokens) ==
    IF tokens = << >> THEN ""
    ELSE IF Len(tokens) = 1 THEN tokens[1]
    ELSE tokens[1] \o " " \o Join(Tail(tokens))

\* str.rstrip("."): every trailing period is removed
RECURSIVE rstrip_period(_)
rstrip_period(tokens) ==
    IF tokens # << >> /\ tokens[Len(tokens)] = "."
    THEN rstrip_period(SubSeq(tokens, 1, Len(tokens) - 1))
    ELSE tokens

\* str.capitalize() on the words a creature name is made of
capitalize(word) ==
    CASE word \in {"test", "Test", "TEST"} -> "Test"
      [] word \in {"ogre", "Ogre", "OGRE"} -> "Ogre"
      [] word \in {"goblin", "Goblin", "GOBLIN"} -> "Goblin"
      [] word \in {"bite", "Bite", "BITE"} -> "Bite"
      [] word \in {"fire", "Fire", "FIRE"} -> "Fire"
      [] word = "STRENGTH" -> "Strength"
      [] word = "DEXTERITY" -> "Dexterity"
      [] word = "CONSTITUTION" -> "Constitution"
      [] word = "INTELLIGENCE" -> "Intelligence"
      [] word = "WISDOM" -> "Wisdom"
      [] word = "CHARISMA" -> "Charisma"
      [] OTHER -> word

\* CombatCharacteristic.__post_init__: every word of monster_name capitalized
post_init_monster_name(name) == [i \in 1..Len(name) |-> capitalize(name[i])]

(***************************************************************************)
(* data/macros.py: keyword emphasis and macro resolution                   *)
(***************************************************************************)
\* the rules terms given emphasis
KeywordPhrases == {"fire", "Fire", "poisoned"}

format_keyword_phrases(tokens) ==
    [i \in 1..Len(tokens) |->
        IF tokens[i] \in KeywordPhrases THEN "*" \o tokens[i] \o "*" ELSE tokens[i]]

\* the words that denote a non-negative int, and the int of such a word
NumberWords == {ToString(n) : n \in 0..(MaxBonus + 1)}
IsNumberWord(w) == w \in NumberWords
ParseNumber(w) == CHOOSE n \in 0..(MaxBonus + 1) : ToString(n) = w

\* the words NdM that denote a dice expression, and their N and M
DiceWord(n, die) == ToString(n) \o "D" \o ToString(die)
IsDiceWord(w) == \E n \in 1..MaxDice, die \in Die : w = DiceWord(n, die)
ParseDice(w) ==
    CHOOSE nd \in (1..MaxDice) \X Die : w = DiceWord(nd[1], nd[2])

\* the context a directive is resolved in
MacroContext(name, ability_scores, pb, lr, lr_lair) ==
    [monster_name |-> name, ability_scores |-> ability_scores,
     proficiency_bonus |-> pb, num_legendary_resistances |-> lr,
     legendary_resistances_lair_bonus |-> lr_lair]

\* an optional count, None counting as 0
CountOf(opt) == IF opt = << >> THEN 0 ELSE opt[1]

\* a directive's content split into its base and its trailing "+ N" or "- N"
DirectiveParts(content) ==
    LET n == Len(content)
    IN  IF n >= 3 /\ content[n - 1] \in {"+", "-"} /\ IsNumberWord(content[n])
        THEN [base |-> SubSeq(content, 1, n - 2), sign |-> content[n - 1],
              bonus |-> <<ParseNumber(content[n])>>]
        ELSE [base |-> content, sign |-> "None", bonus |-> << >>]

NotRecognized == [ok |-> FALSE, text |-> << >>]
Resolved(tokens) == [ok |-> TRUE, text |-> tokens]

\* the text a directive's content resolves to, token families in precedence order
resolve_directive(content, ctx, roll_type) ==
    LET parts == DirectiveParts(content)
        base == parts.base
        signed == calced_bonus(parts.sign, parts.bonus).value
    IN  CASE base = <<"MON">> /\ parts.sign = "None" -> Resolved(ctx.monster_name)
          [] Len(base) = 1 /\ IsDiceWord(base[1]) ->
                LET nd == ParseDice(base[1])
                IN  Resolved(<<ToString(DieRollValue(nd[2], nd[1], roll_type) + signed)>>)
          [] Len(base) = 2 /\ base[1] \in StatCodes /\ base[2] = "ATK" ->
                Resolved(<<modifier_display_str(
                    calculate_stat_operation(ctx.ability_scores, base[1], "ATK",
                                             parts.sign, parts.bonus).value)>>)
          [] Len(base) = 2 /\ base[1] \in StatCodes /\ base[2] = "SAVE" ->
                Resolved(<<ToString(
                    calculate_stat_operation(ctx.ability_scores, base[1], "SAVE",
                                             parts.sign, parts.bonus).value)>>)
          [] Len(base) = 2 /\ base[1] \in StatCodes /\ IsDiceWord(base[2]) ->
                LET nd == ParseDice(base[2])
                    modifier ==
                        ability_modifier(ctx.ability_scores, STAT_STR_TO_ABILITY[base[1]])
                IN  Resolved(<<ToString(DieRollValue(nd[2], nd[1], roll_type)
                                        + modifier + signed)>>)
          [] base = <<"LR">> ->
                Resolved(<<ToString(CountOf(ctx.num_legendary_resistances) + signed)>>)
          [] base = <<"LRL">> ->
                Resolved(<<ToString(CountOf(ctx.num_legendary_resistances)
                                    + CountOf(ctx.legendary_resistances_lair_bonus)
                                    + signed)>>)
          [] OTHER -> NotRecognized

\* the index of the first "]" at or after i, 0 when there is none
ClosingBracket(tokens, i) ==
    IF \E j \in i..Len(tokens) : tokens[j] = "]"
    THEN CHOOSE j \in i..Len(tokens) :
            tokens[j] = "]" /\ \A k \in i..(j - 1) : tokens[k] # "]"
    ELSE 0

\* a plausible slip: an unrecognized directive left in the output as written
RECURSIVE resolve_from_passthrough(_, _, _, _, _)
resolve_from_passthrough(tokens, i, out, ctx, roll_type) ==
    IF i > Len(tokens) THEN TextReturn(out)
    ELSE IF tokens[i] # "[" THEN
        resolve_from_passthrough(tokens, i + 1, Append(out, tokens[i]), ctx, roll_type)
    ELSE
        LET j == ClosingBracket(tokens, i)
        IN  IF j = 0 THEN TextRaise("ParseError", Join(SubSeq(tokens, i, Len(tokens))))
            ELSE LET content == SubSeq(tokens, i + 1, j - 1)
                     r == resolve_directive(content, ctx, roll_type)
                 IN  resolve_from_passthrough(tokens, j + 1,
                        out \o (IF r.ok THEN r.text ELSE SubSeq(tokens, i, j)),
                        ctx, roll_type)

\* the single left-to-right pass: text outside brackets is copied, a directive is
\* replaced by its resolution, and the first unrecognized one ends the pass with
\* a parse error that names its content
RECURSIVE resolve_from(_, _, _, _, _)
resolve_from(tokens, i, out, ctx, roll_type) ==
    IF i > Len(tokens) THEN TextReturn(out)
    ELSE IF tokens[i] # "[" THEN
        resolve_from(tokens, i + 1, Append(out, tokens[i]), ctx, roll_type)
    ELSE
        LET j == ClosingBracket(tokens, i)
        IN  IF j = 0 THEN TextRaise("ParseError", Join(SubSeq(tokens, i, Len(tokens))))
            ELSE LET content == SubSeq(tokens, i + 1, j - 1)
                     r == resolve_directive(content, ctx, roll_type)
                 IN  IF r.ok
                     THEN resolve_from(tokens, j + 1, out \o r.text, ctx, roll_type)
                     ELSE TextRaise("ParseError", Join(content))

\* production text is resolved in average-roll mode
resolve_all_macros(text, name, ability_scores, pb, lr, lr_lair) ==
    resolve_from(text, 1, << >>, MacroContext(name, ability_scores, pb, lr, lr_lair),
                 "AVERAGE")

(***************************************************************************)
(* data/action.py: CombatCharacteristic                                    *)
(***************************************************************************)
\* a plausible slip: the title capitalized as well
CombatCharacteristic_titlecase(name, ability_scores, pb, t, d, lr, lr_lair) ==
    [monster_name |-> post_init_monster_name(name), ability_scores |-> ability_scores,
     proficiency_bonus |-> pb, title |-> [i \in 1..Len(t) |-> capitalize(t[i])],
     description |-> d,
     num_legendary_resistances |-> lr, legendary_resistances_lair_bonus |-> lr_lair]

\* the fields of a characteristic that the macros read, after __post_init__
CombatCharacteristic(name, ability_scores, pb, t, d, lr, lr_lair) ==
    [monster_name |-> post_init_monster_name(name), ability_scores |-> ability_scores,
     proficiency_bonus |-> pb, title |-> t, description |-> d,
     num_legendary_resistances |-> lr, legendary_resistances_lair_bonus |-> lr_lair]

resolved_title(c) ==
    LET nm == rstrip_period(c.title)
    IN  resolve_all_macros(nm, c.monster_name, c.ability_scores, c.proficiency_bonus,
                           c.num_legendary_resistances,
                           c.legendary_resistances_lair_bonus)

\* a plausible slip: the keywords emphasised after the macros are resolved
resolved_description_resolve_first(c) ==
    LET resolved == resolve_all_macros(rstrip_period(c.description), c.monster_name,
                        c.ability_scores, c.proficiency_bonus,
                        c.num_legendary_resistances, c.legendary_resistances_lair_bonus)
    IN  IF resolved.status = "raise" THEN resolved
        ELSE TextReturn(format_keyword_phrases(resolved.text))

resolved_description(c) ==
    LET desc == format_keyword_phrases(rstrip_period(c.description))
    IN  resolve_all_macros(desc, c.monster_name, c.ability_scores,
                           c.proficiency_bonus, c.num_legendary_resistances,
                           c.legendary_resistances_lair_bonus)

\* str.endswith(".")
endswith_period(tokens) == tokens # << >> /\ tokens[Len(tokens)] = "."

\* a plausible slip: only one trailing period removed before resolution and the
\* period appended unconditionally
hb_v3_markdown_once(c) ==
    LET strip_once(t) == IF endswith_period(t) THEN SubSeq(t, 1, Len(t) - 1) ELSE t
        resolve(t) ==
            resolve_all_macros(t, c.monster_name, c.ability_scores, c.proficiency_bonus,
                               c.num_legendary_resistances,
                               c.legendary_resistances_lair_bonus)
        rt == resolve(strip_once(c.title))
        rd == resolve(format_keyword_phrases(strip_once(c.description)))
    IN  IF rt.status = "raise" THEN rt
        ELSE IF rd.status = "raise" THEN rd
        ELSE TextReturn(<<"***">> \o rt.text \o <<".">> \o <<"***">>
                        \o rd.text \o <<".">>)

\* CombatCharacteristic.hb_v3_markdown: "***title.*** description.", a period being
\* appended to a part that does not already end with one; the tokens "***" stand
\* for the emphasis marks
hb_v3_markdown(c) ==
    LET rt == resolved_title(c)
        rd == resolved_description(c)
    IN  IF rt.status = "raise" THEN rt
        ELSE IF rd.status = "raise" THEN rd
        ELSE TextReturn(<<"***">> \o rt.text
                        \o (IF endswith_period(rt.text) THEN << >> ELSE <<".">>)
                        \o <<"***">> \o rd.text
                        \o (IF endswith_period(rd.text) THEN << >> ELSE <<".">>))

(***************************************************************************)
(* The characteristic under test and the calls made on it.  Its           *)
(* ability-score snapshot is the one the editor builds: an entry for each  *)
(* ability, each tier Normal or Proficient.                                *)
(***************************************************************************)
\* the sequences of at most n segments, each flattened into one text
RECURSIVE Texts(_, _)
Texts(segments, n) ==
    IF n = 0 THEN {<< >>}
    ELSE LET shorter == Texts(segments, n - 1)
         IN  shorter \cup {t \o seg : t \in shorter, seg \in segments}

SegmentVocabulary ==
    {<<"makes", "a">>,
     <<"fire", "damage", ".">>,
     <<"[", "MON", "]">>,
     <<"[", "STR", "ATK", "]">>,
     <<"[", "STR", "2D6", "]">>,
     <<"[", "2D8", "+", "1", "]">>,
     <<"[", "DEX", "ATK", "-", "1", "]">>,
     <<"[", "LRL", "]">>,
     <<"[", "FOO", "BAR", "]">>}

\* "[MON] makes a [STR ATK] attack for [STR 1D6] damage"
OgreText ==
    <<"[", "MON", "]", "makes", "a", "[", "STR", "ATK", "]", "attack", "for",
      "[", "STR", "1D6", "]", "damage">>

NameSamples ==
    {<<"test", "ogre">>, <<"TEST", "Ogre">>, <<"goblin">>, <<"ogre", ".">>,
     <<"fire", "ogre">>}

TitleSamples ==
    {<<"Bite">>, <<"[", "MON", "]", "Slam", ".">>, <<"Mark", "[", "FOO", "BAR", "]">>,
     <<"Bite", ".", ".">>, <<"fire", "Bite">>}

characteristic ==
    [monster_name |-> monster_name,
     ability_scores |-> AbilityScores(proficiency_bonus, scores, proficiency_levels),
     proficiency_bonus |-> proficiency_bonus, title |-> title,
     description |-> description,
     num_legendary_resistances |-> num_legendary_resistances,
     legendary_resistances_lair_bonus |-> legendary_resistances_lair_bonus]

InitMacro ==
    /\ proficiency_bonus \in MinProfBonus..MaxProfBonus
    /\ scores \in {[a \in Ability |-> IF a = "STRENGTH" THEN s ELSE 10] :
                        s \in ScoreSamples}
    /\ proficiency_levels \in
            {[a \in Ability |-> IF a = "STRENGTH" THEN t ELSE "NORMAL"] :
                t \in {"NORMAL", "PROFICIENT"}}
    /\ ret = NoCall
    /\ ChallengeIdle
    /\ DocumentIdle
    /\ \E name \in NameSamples, t \in TitleSamples,
          d \in Texts(SegmentVocabulary, MaxSegments) \cup {OgreText},
          lr \in {<< << >>, << >> >>, << <<3>>, <<1>> >>} :
            LET c == CombatCharacteristic(name,
                        AbilityScores(proficiency_bonus, scores, proficiency_levels),
                        proficiency_bonus, t, d, lr[1], lr[2])
            IN  /\ monster_name = c.monster_name
                /\ title = c.title
                /\ description = c.description
                /\ num_legendary_resistances = c.num_legendary_resistances
                /\ legendary_resistances_lair_bonus = c.legendary_resistances_lair_bonus
    /\ macro_ret = NoMacroCall

CallResolvedTitle ==
    /\ macro_ret = NoMacroCall
    /\ macro_ret' = MacroCall("resolved_title", 0, 0, "", resolved_title(characteristic))
    /\ UNCHANGED <<abilityVars, challengeVars, characteristicVars, documentVars>>

CallResolvedDescription ==
    /\ macro_ret = NoMacroCall
    /\ macro_ret' = MacroCall("resolved_description", 0, 0, "",
                              resolved_description(characteristic))
    /\ UNCHANGED <<abilityVars, challengeVars, characteristicVars, documentVars>>

CallHbV3Markdown ==
    /\ macro_ret = NoMacroCall
    /\ macro_ret' = MacroCall("hb_v3_markdown", 0, 0, "", hb_v3_markdown(characteristic))
    /\ UNCHANGED <<abilityVars, challengeVars, characteristicVars, documentVars>>

MacroReturnToCaller ==
    /\ macro_ret # NoMacroCall
    /\ macro_ret' = NoMacroCall
    /\ UNCHANGED <<abilityVars, challengeVars, characteristicVars, documentVars>>

NextMacro ==
    \/ CallResolvedTitle
    \/ CallResolvedDescription
    \/ CallHbV3Markdown
    \/ MacroReturnToCaller

SpecMacro == InitMacro /\ [][NextMacro]_vars

(***************************************************************************)
(* Die.roll on its own: any die, any number of dice, any roll type.        *)
(***************************************************************************)
InitDice == AbilityIdle /\ ChallengeIdle /\ MacroIdle /\ DocumentIdle

CallDieRoll(die, num_dice, roll_type) ==
    /\ macro_ret = NoMacroCall
    /\ \E v \in DieRoll(die, num_dice, roll_type) :
            macro_ret' = MacroCall("roll", die, num_dice, roll_type, IntReturn(v))
    /\ UNCHANGED <<abilityVars, challengeVars, characteristicVars, documentVars>>

NextDice ==
    \/ \E die \in Die, num_dice \in 1..MaxDice, roll_type \in RollType :
            CallDieRoll(die, num_dice, roll_type)
    \/ MacroReturnToCaller

SpecDice == InitDice /\ [][NextDice]_vars

(***************************************************************************)
(* Properties of macro resolution                                          *)
(***************************************************************************)
\* the description of the ogre was resolved: the creature is named "Test Ogre",
\* has STR 18 and proficiency bonus 2
OgreCase ==
    /\ macro_ret.fn = "resolved_description"
    /\ monster_name = <<"Test", "Ogre">>
    /\ scores["STRENGTH"] = 18
    /\ proficiency_bonus = 2
    /\ description = OgreText

\* C9 as stated: the ogre's text resolves to "Test Ogre makes a +6 attack ..." with
\* the damage number 8, the average of 1D6 being 4 and the STR modifier 4 added once.
C9_Original ==
    OgreCase =>
        /\ macro_ret.out.status = "return"
        /\ Join(macro_ret.out.text) = "Test Ogre makes a +6 attack for 8 damage"

\* C9, amended: the damage number is 7, the average of 1D6 being floor(3.5) = 3 and
\* the STR modifier 4 added once to the dice total; with two dice the modifier is
\* still added once ([STR 2D6] gives 7 + modifier).
C9_OgreText ==
    /\ OgreCase =>
        /\ macro_ret.out.status = "return"
        /\ Join(macro_ret.out.text) = "Test Ogre makes a +6 attack for 7 damage"
    /\ (macro_ret.fn = "resolved_description"
            /\ description = <<"[", "STR", "2D6", "]">>) =>
        macro_ret.out.text = <<ToString(7 + FloorHalf(scores["STRENGTH"] - 10))>>

\* the ogre's text was resolved to its final form
C9_Witness ==
    /\ OgreCase
    /\ Join(macro_ret.out.text) = "Test Ogre makes a +6 attack for 7 damage"

\* the text holds the directive [FOO BAR]
HasFooBar(tokens) ==
    \E i \in 1..(Len(tokens) - 3) :
        SubSeq(tokens, i, i + 3) = <<"[", "FOO", "BAR", "]">>

\* C10: resolving text with a directive of no recognized family, such as [FOO BAR],
\* raises a parse error that names the content; no output text is returned, neither
\* with the bracket text dropped or kept nor with the other directives substituted.
C10_UnknownDirectiveRaises ==
    (\/ macro_ret.fn = "resolved_title" /\ HasFooBar(title)
     \/ macro_ret.fn = "resolved_description" /\ HasFooBar(description)) =>
        /\ macro_ret.out.status = "raise"
        /\ macro_ret.out.exc = "ParseError"
        /\ macro_ret.out.offending = "FOO BAR"
        /\ macro_ret.out.text = << >>

\* a description with a resolvable directive before [FOO BAR] raised
C10_Witness ==
    /\ macro_ret.fn = "resolved_description"
    /\ description = <<"[", "MON", "]", "[", "FOO", "BAR", "]">>
    /\ macro_ret.out.status = "raise"
    /\ macro_ret.out.offending = "FOO BAR"

\* C24: keyword emphasis is applied to the description only, and before the macros
\* are resolved: a keyword that a macro produces (the creature name "Fire Ogre") is
\* not emphasised, and a keyword in the title is not emphasised; the resolver gets
\* the same creature name, ability scores, proficiency bonus and legendary-
\* resistance counts for the title and for the description.
C24_EmphasisBeforeResolution ==
    /\ macro_ret.fn = "resolved_title" =>
            /\ macro_ret.out =
                    resolve_all_macros(rstrip_period(title), monster_name, self,
                        proficiency_bonus, num_legendary_resistances,
                        legendary_resistances_lair_bonus)
            /\ title = <<"fire", "Bite">> => macro_ret.out.text = <<"fire", "Bite">>
    /\ macro_ret.fn = "resolved_description" =>
            /\ macro_ret.out =
                    resolve_all_macros(
                        [i \in 1..Len(rstrip_period(description)) |->
                            IF description[i] \in {"fire", "Fire", "poisoned"}
                            THEN "*" \o description[i] \o "*" ELSE description[i]],
                        monster_name, self, proficiency_bonus,
                        num_legendary_resistances, legendary_resistances_lair_bonus)
            /\ (/\ monster_name = <<"Fire", "Ogre">>
                /\ description = <<"[", "MON", "]", "fire", "damage", ".">>) =>
                    Join(macro_ret.out.text) = "Fire Ogre *fire* damage"

\* the description "[MON] fire damage." of the Fire Ogre was resolved
C24_Witness ==
    /\ macro_ret.fn = "resolved_description"
    /\ monster_name = <<"Fire", "Ogre">>
    /\ description = <<"[", "MON", "]", "fire", "damage", ".">>
    /\ Join(macro_ret.out.text) = "Fire Ogre *fire* damage"

(***************************************************************************)
(* Properties of the characteristic's markdown                             *)
(***************************************************************************)
\* the text without its last token when that token is a period
StripOnePeriod(t) ==
    IF t # << >> /\ t[Len(t)] = "." THEN SubSeq(t, 1, Len(t) - 1) ELSE t

\* the longest prefix of the text that does not end with a period
StripAllPeriods(t) ==
    LET k == CHOOSE k \in 0..Len(t) :
                /\ k = 0 \/ t[k] # "."
                /\ \A j \in (k + 1)..Len(t) : t[j] = "."
    IN  SubSeq(t, 1, k)

\* macro resolution in the context of the characteristic under test
ResolveHere(t) ==
    resolve_all_macros(t, monster_name,
                       AbilityScores(proficiency_bonus, scores, proficiency_levels),
                       proficiency_bonus, num_legendary_resistances,
                       legendary_resistances_lair_bonus)

\* the text ending with a period: one is appended unless it already ends with one
WithPeriod(t) == IF t # << >> /\ t[Len(t)] = "." THEN t ELSE t \o <<".">>

\* the markdown of the characteristic was asked for and was returned
MarkdownReturned ==
    macro_ret.fn = "hb_v3_markdown" /\ macro_ret.out.status = "return"

\* C11 as stated: the final markdown is "***T.*** D." where T and D are the
\* macro-resolved title and description after a single trailing period was stripped
\* from each input, a period being re-appended to each.
C11_Original ==
    MarkdownReturned =>
        macro_ret.out.text =
            <<"***">> \o ResolveHere(StripOnePeriod(title)).text \o <<".", "***">>
            \o ResolveHere(format_keyword_phrases(StripOnePeriod(description))).text
            \o <<".">>

\* C11, amended: the final markdown is "***T*** D" where T and D are the
\* macro-resolved title and description after every trailing period was stripped
\* from each input, a period being appended to each resolved part that does not
\* already end with one; the markdown is returned exactly when both parts resolve.
C11_Markdown ==
    macro_ret.fn = "hb_v3_markdown" =>
        LET T == ResolveHere(StripAllPeriods(title))
            D == ResolveHere(format_keyword_phrases(StripAllPeriods(description)))
        IN  /\ macro_ret.out.status = "return" <=>
                    (T.status = "return" /\ D.status = "return")
            /\ macro_ret.out.status = "return" =>
                    macro_ret.out.text =
                        <<"***">> \o WithPeriod(T.text) \o <<"***">> \o WithPeriod(D.text)

\* the markdown of a title that ends with two periods was rendered with one
C11_Witness ==
    /\ MarkdownReturned
    /\ title = <<"Bite", ".", ".">>
    /\ description = <<"fire", "damage", ".">>
    /\ macro_ret.out.text = <<"***", "Bite", ".", "***", "*fire*", "damage", ".">>

(***************************************************************************)
(* Hit dice: Size.hit_die (data/enums.py), Dice.closest_to and             *)
(* Dice.hit_points (data/dice.py), StatBlock.hit_points_str                *)
(***************************************************************************)
\* the members of Size in the order of their values 1..6
SizeOrder == <<"TINY", "SMALL", "MEDIUM", "LARGE", "HUGE", "GARGANTUAN">>

\* Size.value
SizeValue(sz) == CHOOSE i \in 1..Len(SizeOrder) : SizeOrder[i] = sz

\* Size.hit_die
hit_die(sz) ==
    CASE sz = "TINY" -> 4
      [] sz = "SMALL" -> 6
      [] sz = "MEDIUM" -> 8
      [] sz = "LARGE" -> 10
      [] sz = "HUGE" -> 12
      [] sz = "GARGANTUAN" -> 20

\* the ceiling of the search: the candidate counts are 1..MaxHitDice
MaxHitDice == 100

Dice(num_dice, die) == [num_dice |-> num_dice, die |-> die]

\* twice the distance of n dice from the target:
\* 2 * |n * (die + 1) / 2 + n * modifier - hp|
hit_dice_distance2(n, die, modifier, hp) ==
    Abs(n * (die + 1) + 2 * n * modifier - 2 * hp)

\* a plausible slip: the modifier added once, not once per die
RECURSIVE closest_in_once(_, _, _, _, _)
closest_in_once(lo, hi, die, modifier, hp) ==
    LET d2(k) == Abs(k * (die + 1) + 2 * modifier - 2 * hp)
    IN  IF lo = hi THEN lo
        ELSE LET mid == (lo + hi) \div 2
                 low == closest_in_once(lo, mid, die, modifier, hp)
                 high == closest_in_once(mid + 1, hi, die, modifier, hp)
             IN  IF d2(high) < d2(low) THEN high ELSE low

\* the best of the candidate counts lo..hi: a larger count is preferred to a
\* smaller one only when it is strictly closer, so that ties go to the smaller
\* (the candidates are halved, not walked, to keep the evaluation shallow)
RECURSIVE closest_in(_, _, _, _, _)
closest_in(lo, hi, die, modifier, hp) ==
    IF lo = hi THEN lo
    ELSE LET mid == (lo + hi) \div 2
             low == closest_in(lo, mid, die, modifier, hp)
             high == closest_in(mid + 1, hi, die, modifier, hp)
         IN  IF hit_dice_distance2(high, die, modifier, hp)
                    < hit_dice_distance2(low, die, modifier, hp)
             THEN high ELSE low

\* Dice.closest_to(hp, size, ability_scores)
closest_to(hp, sz, ability_scores) ==
    Dice(closest_in(1, MaxHitDice, hit_die(sz),
                    ability_modifier(ability_scores, "CONSTITUTION"), hp),
         hit_die(sz))

\* a plausible slip: the hit points not clamped
hit_points_unclamped(dice, ability_scores) ==
    DieRollValue(dice.die, dice.num_dice, "AVERAGE")
        + dice.num_dice * ability_modifier(ability_scores, "CONSTITUTION")

\* Dice.hit_points(ability_scores): the average roll plus the modifier per die,
\* at least 1
hit_points(dice, ability_scores) ==
    LET hp == DieRollValue(dice.die, dice.num_dice, "AVERAGE")
                + dice.num_dice * ability_modifier(ability_scores, "CONSTITUTION")
    IN  IF hp < 1 THEN 1 ELSE hp

\* the outcome of StatBlock.hit_points_str: the final hit points, with the target
\* and the dice they were derived from
HitPointsReturn(v, hp, dice) ==
    [status |-> "return", exc |-> "", value |-> v, target |-> hp,
     num_dice |-> dice.num_dice, die |-> dice.die]

\* StatBlock.hit_points_str
hit_points_str(sizes, cr, ability_scores) ==
    IF sizes = {} THEN [status |-> "empty", exc |-> "", value |-> 0]
    ELSE LET hp == hit_point_target(cr)
             max_size == CHOOSE sz \in sizes :
                            \A other \in sizes : SizeValue(other) <= SizeValue(sz)
         IN  IF hp.status = "raise" THEN hp
             ELSE LET hit_dice == closest_to(hp.value, max_size, ability_scores)
                  IN  HitPointsReturn(hit_points(hit_dice, ability_scores),
                                      hp.value, hit_dice)

(***************************************************************************)
(* The stat block under test for its hit points: a rating, one or more     *)
(* sizes and a Constitution score.                                         *)
(***************************************************************************)
\* the Constitution scores drawn: modifiers -5, -1, 0, +2 and +10
ConstitutionSamples == {1, 8, 10, 15, 30}

InitHitDice ==
    /\ proficiency_bonus = MinProfBonus
    /\ scores \in {[a \in {} |-> 10]}
                    \cup {[a \in {"CONSTITUTION"} |-> s] : s \in ConstitutionSamples}
    /\ proficiency_levels = NoTiers
    /\ ret = NoCall
    /\ rating \in Ratings
    /\ has_lair = FALSE
    /\ size \in {sz \in SUBSET Size : Cardinality(sz) <= MaxSizes + 1}
    /\ cr_ret = NoCrCall
    /\ MacroIdle
    /\ DocumentIdle

CallHitPointsStr ==
    /\ cr_ret = NoCrCall
    /\ cr_ret' = CrCall("hit_points_str",
                        hit_points_str(size, ChallengeRating(rating, has_lair), self))
    /\ UNCHANGED <<rating, has_lair, size, abilityVars, macroVars, documentVars>>

NextHitDice ==
    \/ CallHitPointsStr
    \/ CrReturnToCaller

SpecHitDice == InitHitDice /\ [][NextHitDice]_vars

(***************************************************************************)
(* Properties of the hit dice                                              *)
(***************************************************************************)
\* the hit points of a stat block with a size and a rating >= 0 were computed
HitDiceCall ==
    /\ cr_ret.fn = "hit_points_str"
    /\ cr_ret.out.status = "return"

\* the Constitution modifier of the stat block
ConModifier == FloorHalf(DictGet(scores, "CONSTITUTION", 10) - 10)

\* the die of the largest size of the stat block
LargestDie ==
    CHOOSE die \in Die :
        \E sz \in size : /\ die = hit_die(sz)
                         /\ \A other \in size : hit_die(other) <= die

\* twice |n * (die_max + 1) / 2 + n * modifier - target|
Distance2(n, die_max, modifier, target) ==
    Abs(n * (die_max + 1) + 2 * n * modifier - 2 * target)

\* C12: hit-dice selection returns the count n >= 1 that minimizes
\* |n * (die_max + 1) / 2 + n * modifier - target| over the candidate counts, the
\* smaller count on a tie; the die is the one of the size; the same inputs always
\* give the same count.
C12_ClosestHitDice ==
    HitDiceCall =>
        LET n == cr_ret.out.num_dice
            die_max == LargestDie
            modifier == ConModifier
            target == cr_ret.out.target
            best == Distance2(n, die_max, modifier, target)
        IN  /\ n >= 1
            /\ cr_ret.out.die = die_max
            /\ \A k \in 1..MaxHitDice :
                    /\ best <= Distance2(k, die_max, modifier, target)
                    /\ best = Distance2(k, die_max, modifier, target) => n <= k

\* a Large creature of rating 5 (target 90) with Constitution 15 got 12 dice:
\* 12 * 5.5 + 12 * 2 = 90
C12_Witness ==
    /\ HitDiceCall
    /\ size = {"LARGE"}
    /\ rating = Fraction(5, 1)
    /\ DictGet(scores, "CONSTITUTION", 10) = 15
    /\ cr_ret.out.num_dice = 12
    /\ cr_ret.out.value = 90

\* C13: for every target, size and Constitution modifier, a very negative modifier
\* and the target 0 of rating 0 included, the final hit points are at least 1.
C13_HitPointsAtLeastOne ==
    HitDiceCall => cr_ret.out.value >= 1

\* a Tiny creature of rating 0 with Constitution 1: one d4 averages 2, the modifier
\* is -5, and the hit points are 1
C13_Witness ==
    /\ HitDiceCall
    /\ size = {"TINY"}
    /\ rating = Fraction(0, 1)
    /\ DictGet(scores, "CONSTITUTION", 10) = 1
    /\ cr_ret.out.target = 0
    /\ cr_ret.out.num_dice = 1
    /\ cr_ret.out.value = 1

(***************************************************************************)
(* data/db/monster_manual_2024_database.py: the reference table and its    *)
(* query.  A row is a function from column names to cells; the cell of     *)
(* "Size" and of "Creature Type" is the set of the members it lists, the   *)
(* cell of "Legendary" is 1 or 0 (a bool compares equal to 1 or 0).        *)
(***************************************************************************)
OperationType == {"MEAN", "MEDIAN", "MODE", "MIN", "MAX"}

\* StatblockEnum.display_name, a string, of the members used here
display_name(member) ==
    CASE member = "ANY" -> "Any"
      [] member = "NONE" -> "None"
      [] member = "ARCTIC" -> "Arctic"
      [] member = "FOREST" -> "Forest"
      [] member = "ARCANA" -> "Arcana"
      [] member = "RELICS" -> "Relics"
      [] member = "MEDIUM" -> "Medium"
      [] member = "LARGE" -> "Large"
      [] member = "HUGE" -> "Huge"
      [] member = "BEAST" -> "Beast"
      [] member = "DRAGON" -> "Dragon"
      [] member = "COMMON" -> "Common"
      [] member = "ELVISH" -> "Elvish"
      [] member = "GIANT" -> "Giant"

Row(cr, ac, avg_hp, sizes, creature_types, legendary) ==
    "CR" :> cr @@ "AC" :> ac @@ "Avg HP" :> avg_hp @@ "Size" :> sizes
    @@ "Creature Type" :> creature_types @@ "Legendary" :> legendary

\* the value of an aggregate: a number num/den, NaN, or the Series of the modes
Number(num, den) == [kind |-> "number", num |-> num, den |-> den, modes |-> {}]
NaN == [kind |-> "nan", num |-> 0, den |-> 1, modes |-> {}]
Series(modes) == [kind |-> "series", num |-> 0, den |-> 1, modes |-> modes]

RECURSIVE SumSeq(_)
SumSeq(column) == IF column = << >> THEN 0 ELSE Head(column) + SumSeq(Tail(column))

\* the k-th smallest value of the column
KthSmallest(column, k) ==
    CHOOSE v \in {column[i] : i \in 1..Len(column)} :
        /\ Cardinality({i \in 1..Len(column) : column[i] < v}) < k
        /\ Cardinality({i \in 1..Len(column) : column[i] <= v}) >= k

\* Series.mean, median, mode, min and max; of an empty column the first two and
\* the last two are NaN and the mode is an empty Series
Aggregate(operation, column) ==
    LET n == Len(column)
        count(v) == Cardinality({i \in 1..n : column[i] = v})
    IN  CASE operation = "MODE" ->
                Series({column[i] : i \in {j \in 1..n :
                            \A k \in 1..n : count(column[j]) >= count(column[k])}})
          [] operation # "MODE" /\ n = 0 -> NaN
          [] operation = "MEAN" /\ n > 0 -> Number(SumSeq(column), n)
          [] operation = "MEDIAN" /\ n > 0 ->
                IF n % 2 = 1 THEN Number(KthSmallest(column, (n + 1) \div 2), 1)
                ELSE Number(KthSmallest(column, n \div 2)
                            + KthSmallest(column, n \div 2 + 1), 2)
          [] operation = "MIN" /\ n > 0 -> Number(KthSmallest(column, 1), 1)
          [] operation = "MAX" /\ n > 0 -> Number(KthSmallest(column, n), 1)

QueryReturn(value, sample_size) ==
    [status |-> "return", exc |-> "", value |-> value, sample_size |-> sample_size]

QueryRaise(e) == [status |-> "raise", exc |-> e, value |-> NaN, sample_size |-> 0]

\* a plausible slip: a multi-valued cell compared for equality with the value
RECURSIVE apply_filters_equality(_, _, _)
apply_filters_equality(rows, filters, i) ==
    IF i > Len(filters) THEN [rows |-> rows, emptied |-> FALSE]
    ELSE LET column_name == filters[i][1]
             value == filters[i][2]
             keep(row) ==
                IF column_name \in {"Size", "Creature Type"}
                THEN row[column_name] = {value}
                ELSE row[column_name] = value
             rest == apply_filters_equality(SelectSeq(rows, keep), filters, i + 1)
         IN  [rows |-> rest.rows,
              emptied |-> rest.emptied
                            \/ (column_name \in {"Size", "Creature Type"}
                                    /\ rows = << >>)]

\* the loop over filters.items(): the frame is narrowed by one filter after the
\* other, by membership for "Size" and "Creature Type" and by equality for the
\* other columns; emptied tells that a membership filter met an empty frame
RECURSIVE apply_filters(_, _, _)
apply_filters(rows, filters, i) ==
    IF i > Len(filters) THEN [rows |-> rows, emptied |-> FALSE]
    ELSE LET column_name == filters[i][1]
             value == filters[i][2]
             keep(row) ==
                IF column_name \in {"Size", "Creature Type"}
                THEN value \in row[column_name]
                ELSE row[column_name] = value
             rest == apply_filters(SelectSeq(rows, keep), filters, i + 1)
         IN  [rows |-> rest.rows,
              emptied |-> rest.emptied
                            \/ (column_name \in {"Size", "Creature Type"}
                                    /\ rows = << >>)]

\* the outcomes of MonsterManual2024Database.query.  filters is the dict as the
\* sequence of its items.  Series.apply on an empty frame yields a key that is
\* not a boolean mask, and indexing with it can leave a frame without columns:
\* the next column access then fails and the except clause re-raises ValueError.
\* Whether it does depends on the pandas build, so that both outcomes are kept.
query(rows, filters, aggregate_column_name, operation) ==
    LET query_df == apply_filters(rows, filters, 1)
        column == [i \in 1..Len(query_df.rows) |->
                        query_df.rows[i][aggregate_column_name]]
        sample_size == Len(column)
    IN  {QueryReturn(Aggregate(operation, column), sample_size)}
            \cup (IF query_df.emptied THEN {QueryRaise("ValueError")} ELSE {})

(***************************************************************************)
(* The database under test: a table of at most MaxRows rows of a fixture,  *)
(* and the queries made on it.                                             *)
(***************************************************************************)
MaxRows == 4

Fixture ==
    <<Row(1, 11, 30, {"LARGE"}, {"BEAST"}, 0),
      Row(1, 13, 40, {"LARGE", "HUGE"}, {"BEAST"}, 0),
      Row(1, 13, 50, {"LARGE"}, {"DRAGON"}, 1),
      Row(1, 12, 20, {"MEDIUM"}, {"BEAST", "HUMANOID"}, 0),
      Row(2, 15, 60, {"LARGE"}, {"BEAST"}, 0),
      Row(2, 13, 90, {"HUGE"}, {"DRAGON"}, 1)>>

\* the rows of the fixture at the indices in I, in the order of the fixture
FixtureRows(I) ==
    [k \in 1..Cardinality(I) |->
        Fixture[CHOOSE i \in I : Cardinality({j \in I : j < i}) = k - 1]]

Tables ==
    {FixtureRows(I) : I \in {J \in SUBSET (1..Len(Fixture)) : Cardinality(J) <= MaxRows}}

\* Size(max([sz.value for sz in current_statblock.size]))
max_size(sizes) ==
    CHOOSE sz \in {sizes[i] : i \in 1..Len(sizes)} :
        \A i \in 1..Len(sizes) : SizeValue(sizes[i]) <= SizeValue(sz)

\* query_filters of _handler_query_db and _handler_db_populate_statblock: the dict
\* as the sequence of its items, built from the checked boxes and the stat block
query_filters(checked, current_statblock) ==
    (IF "cr" \in checked
     THEN << <<"CR", current_statblock.rating>> >> ELSE << >>)
    \o (IF "size" \in checked /\ current_statblock.size # << >>
        THEN << <<"Size", display_name(max_size(current_statblock.size))>> >>
        ELSE << >>)
    \o (IF "creature_type" \in checked
        THEN << <<"Creature Type", display_name(current_statblock.creature_type)>> >>
        ELSE << >>)
    \o (IF "legendary" \in checked THEN << <<"Legendary", 1>> >> ELSE << >>)

\* the check boxes of the query panel
FilterBoxes == {"cr", "size", "creature_type", "legendary"}

\* the fields of the stat block that the handlers read
QueriedStatBlocks ==
    {[rating |-> 1, size |-> sizes, creature_type |-> creature_type] :
        sizes \in {<< >>, <<"LARGE">>, <<"MEDIUM", "LARGE">>},
        creature_type \in {"BEAST", "DRAGON"}}

\* the filter dicts, their items in order of insertion: those a caller builds from
\* members, an item absent or holding one of the values, and those the
\* controller's handlers build
FilterSamples ==
    LET OptionalItem(column_name, values) ==
            {<< >>} \cup {<< <<column_name, v>> >> : v \in values}
    IN  {cr \o sz \o ct \o lg :
            cr \in OptionalItem("CR", {1, 2, 3}),
            sz \in OptionalItem("Size", {"LARGE", "HUGE"}),
            ct \in OptionalItem("Creature Type", {"BEAST"}),
            lg \in OptionalItem("Legendary", {1})}
        \cup {query_filters(checked, current_statblock) :
                checked \in SUBSET FilterBoxes,
                current_statblock \in QueriedStatBlocks}

QueryCall(filters, aggregate_column_name, operation, out) ==
    [fn |-> "query", filters |-> filters,
     aggregate_column_name |-> aggregate_column_name, operation |-> operation,
     out |-> out]

InitQuery ==
    /\ df \in Tables
    /\ query_ret = NoDocumentCall
    /\ AbilityIdle /\ ChallengeIdle /\ MacroIdle
    /\ PersistIdle /\ RenderIdle /\ EditorIdle

CallQuery(filters, aggregate_column_name, operation) ==
    /\ query_ret = NoDocumentCall
    /\ \E out \in query(df, filters, aggregate_column_name, operation) :
            query_ret' = QueryCall(filters, aggregate_column_name, operation, out)
    /\ UNCHANGED <<df, abilityVars, challengeVars, macroVars, persistVars,
                   renderVars, editorVars>>

QueryReturnToCaller ==
    /\ query_ret # NoDocumentCall
    /\ query_ret' = NoDocumentCall
    /\ UNCHANGED <<df, abilityVars, challengeVars, macroVars, persistVars,
                   renderVars, editorVars>>

NextQuery ==
    \/ \E filters \in FilterSamples, aggregate_column_name \in {"AC", "Avg HP"},
          operation \in OperationType :
            CallQuery(filters, aggregate_column_name, operation)
    \/ QueryReturnToCaller

SpecQuery == InitQuery /\ [][NextQuery]_vars

(***************************************************************************)
(* Properties of the query                                                 *)
(***************************************************************************)
\* the row satisfies every filter: equality on a scalar column, membership on
\* "Size" and "Creature Type"
SatisfiesAll(row, filters) ==
    \A i \in 1..Len(filters) :
        IF filters[i][1] \in {"Size", "Creature Type"}
        THEN filters[i][2] \in row[filters[i][1]]
        ELSE row[filters[i][1]] = filters[i][2]

\* the cells of the aggregate column in the rows that satisfy every filter of the
\* last query, each row once, in table order
MatchingColumn ==
    LET satisfies(row) == SatisfiesAll(row, query_ret.filters)
        matching == SelectSeq(df, satisfies)
    IN  [i \in 1..Len(matching) |-> matching[i][query_ret.aggregate_column_name]]

QueryMade == query_ret # NoDocumentCall

\* C14: a query whose filters match zero rows raises an error, for each of mean,
\* median, mode, min and max; it never returns NaN, zero or an empty result with
\* sample size 0.
C14_ZeroRowsRaise ==
    (QueryMade /\ MatchingColumn = << >>) => query_ret.out.status = "raise"

\* CR = 1 and Size = Large
LargeAtRatingOne == << <<"CR", 1>>, <<"Size", "LARGE">> >>

\* C15: a query that returns aggregates exactly the rows that satisfy every filter,
\* each such row once, and its sample size is their count; with CR = 1 and
\* Size = Large on the first four rows of the fixture, three rows match, one of
\* them tagged Large and Huge, and the mean of Avg HP is 120 / 3 with sample size 3.
C15_AggregatesMatchingRows ==
    (QueryMade /\ query_ret.out.status = "return") =>
        /\ query_ret.out.sample_size = Len(MatchingColumn)
        /\ query_ret.out.value = Aggregate(query_ret.operation, MatchingColumn)
        /\ (/\ df = FixtureRows({1, 2, 3, 4})
            /\ query_ret.filters = LargeAtRatingOne
            /\ query_ret.aggregate_column_name = "Avg HP"
            /\ query_ret.operation = "MEAN") =>
                /\ query_ret.out.sample_size = 3
                /\ query_ret.out.value.kind = "number"
                /\ query_ret.out.value.num = 40 * query_ret.out.value.den

\* the mean of Avg HP over the three large creatures of rating 1 was computed
C15_Witness ==
    /\ QueryMade
    /\ df = FixtureRows({1, 2, 3, 4})
    /\ query_ret.filters = LargeAtRatingOne
    /\ query_ret.aggregate_column_name = "Avg HP"
    /\ query_ret.operation = "MEAN"
    /\ query_ret.out = QueryReturn(Number(120, 3), 3)

\* the rows that the checked boxes and the stat block ask for: the rating, the
\* largest size in the row's size set, the creature type in the row's type set,
\* legendary
Wanted(row, checked, current_statblock) ==
    /\ "cr" \in checked => row["CR"] = current_statblock.rating
    /\ ("size" \in checked /\ current_statblock.size # << >>) =>
            max_size(current_statblock.size) \in row["Size"]
    /\ "creature_type" \in checked =>
            current_statblock.creature_type \in row["Creature Type"]
    /\ "legendary" \in checked => row["Legendary"] = 1

\* C28: the filter values that the controller's handlers pass select exactly the
\* rows whose size set holds the stat block's largest size and whose type set
\* holds its creature type; a row holding that size or type is matched.
C28_HandlerFiltersSelectRows ==
    \A checked \in SUBSET FilterBoxes, current_statblock \in QueriedStatBlocks :
        (/\ QueryMade
         /\ query_ret.out.status = "return"
         /\ query_ret.filters = query_filters(checked, current_statblock)) =>
            LET wanted(row) == Wanted(row, checked, current_statblock)
            IN  query_ret.out.sample_size = Len(SelectSeq(df, wanted))

(***************************************************************************)
(* Persistence: __getstate__ and __setstate__ of the components            *)
(* (data/ability_scores.py, skills.py, senses.py, speed.py, languages.py)  *)
(* and of the characteristics (data/action.py).  Here an Enum member is    *)
(* the pair <<enum, name>>, so that a member and its name differ; a        *)
(* component is [cls, mappings, plain]: its enum-keyed dicts by field and  *)
(* its other fields.                                                       *)
(***************************************************************************)
EnumNames(enum) ==
    CASE enum = "Ability" -> Ability
      [] enum = "Proficiency" -> Proficiency
      [] enum = "Skill" -> Skill
      [] enum = "Sense" -> {"BLINDSIGHT", "DARKVISION", "TREMORSENSE", "TRUESIGHT"}
      [] enum = "SpeedType" -> {"WALK", "BURROW", "CLIMB", "FLY", "FLY_HOVER", "SWIM"}
      [] enum = "LanguageProficiency" -> {"UNDERSTANDS", "SPEAKS"}
      [] enum = "Language" ->
            {"COMMON", "COMMON_PLUS_ONE_OTHER_LANGUAGE",
             "COMMON_PLUS_TWO_OTHER_LANGUAGES", "COMMON_PLUS_THREE_OTHER_LANGUAGES",
             "COMMON_PLUS_FOUR_OTHER_LANGUAGES", "COMMON_PLUS_FIVE_OTHER_LANGUAGES",
             "DWARVISH", "ELVISH", "GIANT", "GNOMISH", "GOBLIN", "HALFLING", "ORC",
             "DRACONIC", "COMMON_SIGN_LANGUAGE", "ABYSSAL", "CELESTIAL", "INFERNAL",
             "DEEP_SPEECH", "PRIMORDIAL", "SYLVAN", "UNDERCOMMON"}
      [] enum = "CharacteristicType" ->
            {"TRAIT", "ACTION", "BONUS_ACTION", "REACTION", "LEGENDARY_ACTION"}
      [] enum = "LimitedUsageType" ->
            {"UNLIMITED", "X_PER_DAY", "RECHARGE_X_Y", "RECHARGE_AFTER_SHORT_REST",
             "RECHARGE_AFTER_LONG_REST", "RECHARGE_AFTER_SHORT_OR_LONG_REST"}

ComponentClasses == {"AbilityScores", "Skills", "Senses", "Speed", "Languages"}

\* the default ctype of each characteristic class
CharacteristicClasses ==
    [Trait |-> "TRAIT", Action |-> "ACTION", BonusAction |-> "BONUS_ACTION",
     Reaction |-> "REACTION", LegendaryAction |-> "LEGENDARY_ACTION"]

\* the enum-keyed dicts of a class: field |-> <<enum of the keys, enum of the
\* values>>, "int" when the values are ints
Mappings(cls) ==
    CASE cls = "AbilityScores" ->
            [scores |-> <<"Ability", "int">>,
             proficiency_levels |-> <<"Ability", "Proficiency">>]
      [] cls = "Skills" -> [values |-> <<"Skill", "Proficiency">>]
      [] cls = "Senses" -> [values |-> <<"Sense", "int">>]
      [] cls = "Speed" -> [values |-> <<"SpeedType", "int">>]
      [] cls = "Languages" -> [values |-> <<"Language", "LanguageProficiency">>]

\* a plausible slip: str(k) in place of k.name, which gives "Ability.STRENGTH"
ToNames_str(d, value_enum) ==
    [n \in {k[1] \o "." \o k[2] : k \in DOMAIN d} |->
        LET k == CHOOSE k \in DOMAIN d : k[1] \o "." \o k[2] = n
        IN  IF value_enum = "int" THEN d[k] ELSE d[k][2]]

\* {k.name: v.name for k, v in d.items()}, or {k.name: v ...} for int values
ToNames(d, value_enum) ==
    [n \in {k[2] : k \in DOMAIN d} |->
        LET k == CHOOSE k \in DOMAIN d : k[2] = n
        IN  IF value_enum = "int" THEN d[k] ELSE d[k][2]]

\* {Enum[k]: Enum[v] for k, v in d.items()} when every name is a member's
FromNames(d, key_enum, value_enum) ==
    [k \in {<<key_enum, n>> : n \in DOMAIN d} |->
        IF value_enum = "int" THEN d[k[2]] ELSE <<value_enum, d[k[2]]>>]

\* Enum[name] raises KeyError for no name of the dict
NamesKnown(d, key_enum, value_enum) ==
    \A n \in DOMAIN d :
        /\ n \in EnumNames(key_enum)
        /\ value_enum # "int" => d[n] \in EnumNames(value_enum)

\* __getstate__ of a component
component_getstate(o) ==
    [mappings |-> [f \in DOMAIN o.mappings |->
                        ToNames(o.mappings[f], Mappings(o.cls)[f][2])],
     plain |-> o.plain]

\* __setstate__ of a component on a fresh instance of cls
component_setstate(cls, state) ==
    IF \A f \in DOMAIN state.mappings :
            NamesKnown(state.mappings[f], Mappings(cls)[f][1], Mappings(cls)[f][2])
    THEN Return([cls |-> cls,
                 mappings |-> [f \in DOMAIN state.mappings |->
                                FromNames(state.mappings[f], Mappings(cls)[f][1],
                                          Mappings(cls)[f][2])],
                 plain |-> state.plain])
    ELSE Raise("KeyError")

\* the fields of a Trait beyond those of CombatCharacteristic
TraitFields(limited_use_type, limited_use_charges, lair_charge_bonuses) ==
    [limited_use_type |-> <<"LimitedUsageType", limited_use_type>>,
     limited_use_charges |-> limited_use_charges,
     lair_charge_bonuses |-> lair_charge_bonuses]

\* a characteristic of class cls: the fields of CombatCharacteristic c, then
\* saving_throws, has_lair and ctype, and for a Trait its limited-use fields
Characteristic(cls, c, tiers, lair, trait_fields) ==
    [cls |-> cls, monster_name |-> c.monster_name, ability_scores |-> c.ability_scores,
     proficiency_bonus |-> c.proficiency_bonus, saving_throws |-> tiers,
     has_lair |-> lair, title |-> c.title, description |-> c.description,
     ctype |-> <<"CharacteristicType", CharacteristicClasses[cls]>>,
     num_legendary_resistances |-> c.num_legendary_resistances,
     legendary_resistances_lair_bonus |-> c.legendary_resistances_lair_bonus,
     trait |-> IF cls = "Trait" THEN trait_fields ELSE NoObject]

\* CombatCharacteristic.__getstate__, extended by Trait.__getstate__
characteristic_getstate(o) ==
    [monster_name |-> o.monster_name, ability_scores |-> o.ability_scores,
     proficiency_bonus |-> o.proficiency_bonus,
     saving_throws |-> ToNames(o.saving_throws, "Proficiency"),
     has_lair |-> o.has_lair, title |-> o.title, description |-> o.description,
     ctype |-> o.ctype[2],
     trait |-> IF o.cls = "Trait"
               THEN [limited_use_type |-> o.trait.limited_use_type[2],
                     limited_use_charges |-> o.trait.limited_use_charges,
                     lair_charge_bonuses |-> o.trait.lair_charge_bonuses]
               ELSE NoObject]

\* CombatCharacteristic.__setstate__, extended by Trait.__setstate__, on a fresh
\* instance of cls: a field that is not assigned reads as its class default
characteristic_setstate(cls, state) ==
    IF /\ NamesKnown(state.saving_throws, "Ability", "Proficiency")
       /\ state.ctype \in EnumNames("CharacteristicType")
       /\ cls = "Trait" => state.trait.limited_use_type \in EnumNames("LimitedUsageType")
    THEN Return(
            [cls |-> cls, monster_name |-> state.monster_name,
             ability_scores |-> state.ability_scores,
             proficiency_bonus |-> state.proficiency_bonus,
             saving_throws |-> FromNames(state.saving_throws, "Ability", "Proficiency"),
             has_lair |-> state.has_lair, title |-> state.title,
             description |-> state.description,
             ctype |-> <<"CharacteristicType", state.ctype>>,
             num_legendary_resistances |-> << >>,
             legendary_resistances_lair_bonus |-> << >>,
             trait |-> IF cls = "Trait"
                       THEN TraitFields(state.trait.limited_use_type,
                                        state.trait.limited_use_charges,
                                        state.trait.lair_charge_bonuses)
                       ELSE NoObject])
    ELSE Raise("KeyError")

getstate(o) ==
    IF o.cls \in ComponentClasses THEN component_getstate(o)
    ELSE characteristic_getstate(o)

setstate(cls, state) ==
    IF cls \in ComponentClasses THEN component_setstate(cls, state)
    ELSE characteristic_setstate(cls, state)

(***************************************************************************)
(* The object under test for persistence: it is constructed, then          *)
(* persisted and restored, or restored from a state with an unknown name.  *)
(***************************************************************************)
\* the dict with no item
EmptyDict == [k \in {} |-> 0]

ComponentSamples ==
    {[cls |-> "AbilityScores",
      mappings |-> [scores |-> sc, proficiency_levels |-> pl],
      plain |-> [proficiency_bonus |-> MinProfBonus]] :
        sc \in {EmptyDict, <<"Ability", "STRENGTH">> :> 18},
        pl \in {EmptyDict, <<"Ability", "STRENGTH">> :> <<"Proficiency", "EXPERTISE">>}}
    \cup {[cls |-> "Skills", mappings |-> [values |-> v], plain |-> NoObject] :
            v \in {EmptyDict,
                   <<"Skill", "STEALTH">> :> <<"Proficiency", "EXPERTISE">>
                   @@ <<"Skill", "PERCEPTION">> :> <<"Proficiency", "PROFICIENT">>}}
    \cup {[cls |-> "Senses", mappings |-> [values |-> v], plain |-> NoObject] :
            v \in {EmptyDict, <<"Sense", "DARKVISION">> :> 60}}
    \cup {[cls |-> "Speed", mappings |-> [values |-> v], plain |-> NoObject] :
            v \in {<<"SpeedType", "WALK">> :> 30 @@ <<"SpeedType", "FLY_HOVER">> :> 0}}
    \cup {[cls |-> "Languages", mappings |-> [values |-> v],
           plain |-> [telepathy |-> t]] :
            v \in {EmptyDict,
                   <<"Language", "COMMON">> :> <<"LanguageProficiency", "SPEAKS">>
                   @@ <<"Language", "ELVISH">> :> <<"LanguageProficiency", "UNDERSTANDS">>},
            t \in {<<FALSE, 0>>, <<TRUE, 60>>}}

\* the arguments a characteristic is constructed with: cls, monster_name, title,
\* the legendary-resistance counts, the tier of Strength, has_lair and the
\* limited-use fields; the saving_throws dict is the one the editor builds, with a
\* tier for every ability
CharacteristicArguments ==
    [cls : DOMAIN CharacteristicClasses,
     monster_name : {<<"test", "ogre">>, <<"Goblin">>},
     title : {<<"bite">>, <<"Bite">>, <<"ogre", "BITE">>},
     resistances : {<< << >>, << >> >>, << <<3>>, <<1>> >>},
     tier : {"NORMAL", "PROFICIENT"},
     has_lair : BOOLEAN,
     trait : {TraitFields("UNLIMITED", EmptyDict, EmptyDict),
              TraitFields("X_PER_DAY", "uses" :> 3, "uses" :> 1)}]

PersistCall(fn, arguments, state, out) ==
    [fn |-> fn, arguments |-> arguments, state |-> state, out |-> out]

InitPersist ==
    /\ obj = NoObject
    /\ persist_ret = NoDocumentCall
    /\ AbilityIdle /\ ChallengeIdle /\ MacroIdle
    /\ QueryIdle /\ RenderIdle /\ EditorIdle

ConstructComponent(o) ==
    /\ obj = NoObject
    /\ obj' = o
    /\ persist_ret' = PersistCall("__init__", NoObject, NoObject, ReturnNone)
    /\ UNCHANGED <<abilityVars, challengeVars, macroVars, queryVars, renderVars,
                   editorVars>>

\* the dataclass __init__ followed by __post_init__
ConstructCharacteristic(a) ==
    /\ obj = NoObject
    /\ obj' = Characteristic(a.cls,
                CombatCharacteristic(a.monster_name,
                    AbilityScores(MinProfBonus, [ab \in Ability |-> 10],
                                  [ab \in Ability |->
                                        IF ab = "STRENGTH" THEN a.tier ELSE "NORMAL"]),
                    MinProfBonus, a.title, <<"fire", "damage", ".">>,
                    a.resistances[1], a.resistances[2]),
                [ab \in {<<"Ability", n>> : n \in Ability} |->
                    <<"Proficiency", IF ab[2] = "STRENGTH" THEN a.tier ELSE "NORMAL">>],
                a.has_lair, a.trait)
    /\ persist_ret' = PersistCall("__init__", a, NoObject, ReturnNone)
    /\ UNCHANGED <<abilityVars, challengeVars, macroVars, queryVars, renderVars,
                   editorVars>>

\* the object persisted with __getstate__ and a fresh instance restored from
\* that state with __setstate__
CallRoundTrip ==
    /\ obj # NoObject
    /\ persist_ret = NoDocumentCall
    /\ persist_ret' = PersistCall("roundtrip", NoObject, getstate(obj),
                                  setstate(obj.cls, getstate(obj)))
    /\ UNCHANGED <<obj, abilityVars, challengeVars, macroVars, queryVars, renderVars,
                   editorVars>>

\* a fresh component restored from the persisted state of obj in which the key n
\* of the dict f, or the value at n, was replaced by a name of no member
CallSetStateUnknown(f, n, part) ==
    /\ obj # NoObject
    /\ obj.cls \in ComponentClasses
    /\ persist_ret = NoDocumentCall
    /\ f \in DOMAIN getstate(obj).mappings
    /\ n \in DOMAIN getstate(obj).mappings[f]
    /\ part = "value" => Mappings(obj.cls)[f][2] # "int"
    /\ LET state == getstate(obj)
           d == state.mappings[f]
           unknown ==
                IF part = "value" THEN [d EXCEPT ![n] = "LUCK"]
                ELSE [k \in (DOMAIN d \ {n}) \cup {"LUCK"} |->
                        IF k = "LUCK" THEN d[n] ELSE d[k]]
           persisted == [state EXCEPT !.mappings[f] = unknown]
       IN  persist_ret' = PersistCall("__setstate__", NoObject, persisted,
                                      setstate(obj.cls, persisted))
    /\ UNCHANGED <<obj, abilityVars, challengeVars, macroVars, queryVars, renderVars,
                   editorVars>>

PersistReturnToCaller ==
    /\ persist_ret # NoDocumentCall
    /\ persist_ret' = NoDocumentCall
    /\ UNCHANGED <<obj, abilityVars, challengeVars, macroVars, queryVars, renderVars,
                   editorVars>>

NextPersist ==
    \/ \E o \in ComponentSamples : ConstructComponent(o)
    \/ \E a \in CharacteristicArguments : ConstructCharacteristic(a)
    \/ CallRoundTrip
    \/ \E f \in {"scores", "proficiency_levels", "values"},
          n \in UNION {EnumNames(e) : e \in {"Ability", "Skill", "Sense", "SpeedType",
                                             "Language"}},
          part \in {"key", "value"} : CallSetStateUnknown(f, n, part)
    \/ PersistReturnToCaller

SpecPersist == InitPersist /\ [][NextPersist]_vars

(***************************************************************************)
(* Properties of persistence and construction                              *)
(***************************************************************************)
\* a characteristic was persisted and restored
CharacteristicRoundTrip ==
    /\ persist_ret.fn = "roundtrip"
    /\ obj.cls \in DOMAIN CharacteristicClasses

\* C16: persisting any characteristic and restoring it yields a characteristic
\* equal in every field: the legendary-resistance use count and lair-bonus count,
\* the kind, the saving-throw tiers and, for a trait, the limited-use data.
C16_RoundTripEqual ==
    CharacteristicRoundTrip =>
        /\ persist_ret.out.status = "return"
        /\ persist_ret.out.value = obj

\* a component was persisted and restored
ComponentRoundTrip ==
    /\ persist_ret.fn = "roundtrip"
    /\ obj.cls \in ComponentClasses

\* C17: for AbilityScores, Skills, Senses, Speed and Languages the keys and the
\* enum values of the persisted dicts are the names of the members, restoring the
\* persisted state gives back the original dicts, and a persisted name of no member
\* makes the restore raise.
C17_NamesPersisted ==
    /\ ComponentRoundTrip =>
            /\ \A f \in DOMAIN obj.mappings :
                    LET d == obj.mappings[f]
                        persisted == persist_ret.state.mappings[f]
                        enums == Mappings(obj.cls)[f]
                    IN  /\ DOMAIN persisted = {k[2] : k \in DOMAIN d}
                        /\ DOMAIN persisted \subseteq EnumNames(enums[1])
                        /\ \A k \in DOMAIN d :
                                IF enums[2] = "int" THEN persisted[k[2]] = d[k]
                                ELSE /\ persisted[k[2]] = d[k][2]
                                     /\ persisted[k[2]] \in EnumNames(enums[2])
            /\ persist_ret.out.status = "return"
            /\ persist_ret.out.value = obj
    /\ persist_ret.fn = "__setstate__" =>
            /\ persist_ret.out.status = "raise"
            /\ persist_ret.out.exc = "KeyError"

\* ability scores with an Expertise tier were persisted under the names
\* "STRENGTH" and "EXPERTISE" and restored
C17_Witness ==
    /\ ComponentRoundTrip
    /\ obj.cls = "AbilityScores"
    /\ DOMAIN obj.mappings.proficiency_levels = {<<"Ability", "STRENGTH">>}
    /\ persist_ret.state.mappings.proficiency_levels = ("STRENGTH" :> "EXPERTISE")
    /\ persist_ret.out.status = "return"
    /\ persist_ret.out.value = obj

\* a characteristic was constructed from the arguments in persist_ret
CharacteristicConstructed ==
    /\ persist_ret.fn = "__init__"
    /\ obj.cls \in DOMAIN CharacteristicClasses

\* C19 as stated: after construction the stored title has every word capitalized,
\* whatever casing the caller passed.
C19_Original ==
    CharacteristicConstructed =>
        obj.title = [i \in 1..Len(persist_ret.arguments.title) |->
                        capitalize(persist_ret.arguments.title[i])]

\* C19, amended: construction capitalizes every word of the owning creature's name
\* ("test ogre" becomes "Test Ogre") and stores the title as the caller passed it.
C19_NameCapitalized ==
    CharacteristicConstructed =>
        /\ obj.title = persist_ret.arguments.title
        /\ persist_ret.arguments.monster_name = <<"test", "ogre">> =>
                obj.monster_name = <<"Test", "Ogre">>
        /\ persist_ret.arguments.monster_name = <<"Goblin">> =>
                obj.monster_name = <<"Goblin">>

\* a characteristic of "test ogre" titled "ogre BITE" was constructed
C19_Witness ==
    /\ CharacteristicConstructed
    /\ persist_ret.arguments.monster_name = <<"test", "ogre">>
    /\ persist_ret.arguments.title = <<"ogre", "BITE">>
    /\ obj.monster_name = <<"Test", "Ogre">>
    /\ obj.title = <<"ogre", "BITE">>

(***************************************************************************)
(* data/stat_block.py: the characteristic sections of the document.  The   *)
(* document is a sequence of tokens; of the lines above the sections only   *)
(* the title line is kept.                                                  *)
(***************************************************************************)
\* the value of a name bound once: the element of a one-element set
Only(S) == CHOOSE x \in S : TRUE

\* "\n\n".join([c.hb_v3_markdown for c in characteristics]); the first entry
\* whose markdown raises ends the join
RECURSIVE join_markdown(_)
join_markdown(characteristics) ==
    IF characteristics = << >> THEN TextReturn(<< >>)
    ELSE Only({IF first.status = "raise" THEN first
               ELSE IF rest.status = "raise" THEN rest
               ELSE IF Len(characteristics) = 1 THEN first
               ELSE TextReturn(first.text \o <<"\n\n">> \o rest.text) :
                    first \in {hb_v3_markdown(characteristics[1])},
                    rest \in {join_markdown(Tail(characteristics))}})

\* traits_hb_v3_markdown, actions_hb_v3_markdown, bonus_actions_hb_v3_markdown,
\* reactions_hb_v3_markdown
section_hb_v3_markdown(heading, characteristics) ==
    IF characteristics = << >> THEN TextReturn(<< >>)
    ELSE Only({IF joined.status = "raise" THEN joined
               ELSE TextReturn(<<heading, "\n">> \o joined.text) :
                    joined \in {join_markdown(characteristics)}})

\* legendary_actions_hb_v3_markdown: also empty while either count is unset
legendary_actions_hb_v3_markdown(block) ==
    IF \/ block.legendary_actions = << >>
       \/ block.num_legendary_actions = << >>
       \/ block.legendary_actions_lair_bonus = << >>
    THEN TextReturn(<< >>)
    ELSE LET num_uses == block.num_legendary_actions[1]
             bonus == block.legendary_actions_lair_bonus[1]
         IN  Only({IF joined.status = "raise" THEN joined
                   ELSE TextReturn(<<"### Legendary Actions", "\n",
                                     "_Legendary Action Uses:", num_uses, "(",
                                     num_uses + bonus, "in Lair)", "the",
                                     block.name[Len(block.name)], "_",
                                     "\n", "{{color:gray}}", "\n">> \o joined.text) :
                        joined \in {join_markdown(block.legendary_actions)}})

\* the five sections in document order
Sections(block) ==
    <<section_hb_v3_markdown("### Traits", block.traits),
      section_hb_v3_markdown("### Actions", block.actions),
      section_hb_v3_markdown("### Bonus Actions", block.bonus_actions),
      section_hb_v3_markdown("### Reactions", block.reactions),
      legendary_actions_hb_v3_markdown(block)>>

\* markdown_str += section + "\n" for every section that is not empty
RECURSIVE append_sections(_, _)
append_sections(markdown_str, sections) ==
    IF sections = << >> THEN TextReturn(markdown_str)
    ELSE LET section == sections[1]
         IN  IF section.status = "raise" THEN section
             ELSE append_sections(
                    IF section.text # << >>
                    THEN markdown_str \o section.text \o <<"\n">>
                    ELSE markdown_str,
                    Tail(sections))

\* the place of a display name in the order of the lower-cased names
LowerRank(name) ==
    CASE name = "Any" -> 1
      [] name = "Arcana" -> 2
      [] name = "Arctic" -> 3
      [] name = "Forest" -> 4
      [] name = "None" -> 5
      [] name = "Relics" -> 6

\* ", ".join(sorted([m.display_name for m in members], key=lambda x: x.lower()))
joined_display_names(members) ==
    LET names == SortSeq([i \in 1..Len(members) |-> display_name(members[i])],
                         LAMBDA x, y : LowerRank(x) < LowerRank(y))
    IN  [i \in 1..(IF names = << >> THEN 0 ELSE 2 * Len(names) - 1) |->
            IF i % 2 = 1 THEN names[(i + 1) \div 2] ELSE ", "]

\* StatBlock.habitat_str: the stat block it leaves and the text it returns
habitat_str(block) ==
    LET after == IF block.habitat = << >>
                 THEN [block EXCEPT !.habitat = <<"ANY">>] ELSE block
    IN  [block |-> after, text |-> joined_display_names(after.habitat)]

\* StatBlock.treasure_str: the stat block it leaves and the text it returns
treasure_str(block) ==
    LET after == IF block.treasure = << >>
                 THEN [block EXCEPT !.treasure = <<"NONE">>] ELSE block
    IN  [block |-> after, text |-> joined_display_names(after.treasure)]

\* StatBlock.habitat_and_treasure_hb_v3_markdown
habitat_and_treasure_hb_v3_markdown(block) ==
    LET h == habitat_str(block)
        t == treasure_str(h.block)
    IN  [block |-> t.block,
         text |-> <<"{{habitat", "**Habitat:**">> \o h.text
                    \o <<";", "**Treasure:**">> \o t.text \o <<"}}">>]

\* StatBlock.hb_v3_markdown: the text it returns or the error it raises
stat_block_hb_v3_markdown(block) ==
    Only({IF appended.status = "raise" THEN appended
          ELSE TextReturn(appended.text \o <<"}}", "\n">>) :
            appended \in {Only({append_sections(
                                    <<"##">> \o block.name \o <<"\n">>
                                        \o habitat_and_treasure_hb_v3_markdown(block).text
                                        \o <<"\n">>,
                                    sections) :
                                    sections \in {Sections(block)}})}})

(***************************************************************************)
(* The document specification                                               *)
(***************************************************************************)
\* the longest list of characteristics of one kind
MaxEntries == 2

\* a characteristic of the stat block
Entry(t, d) ==
    CombatCharacteristic(<<"ogre">>,
        AbilityScores(MinProfBonus, [a \in Ability |-> 10],
                      [a \in Ability |-> "NORMAL"]),
        MinProfBonus, t, d, << >>, << >>)

\* lists of up to MaxEntries characteristics
Lists(entries) == UNION {[1..n -> entries] : n \in 0..MaxEntries}

\* traits: one that resolves and one with an unknown directive
TraitEntries ==
    {Entry(<<"Keen", "Smell">>, <<"fire", "damage", ".">>),
     Entry(<<"Mark", "[", "FOO", "BAR", "]">>, <<"fire", "damage", ".">>)}

StatBlock(traits, actions, bonus_actions, reactions, legendary_actions, num_uses, bonus) ==
    [cls |-> "StatBlock", name |-> <<"Test", "Ogre">>,
     traits |-> traits, actions |-> actions, bonus_actions |-> bonus_actions,
     habitat |-> << >>, treasure |-> << >>,
     reactions |-> reactions, legendary_actions |-> legendary_actions,
     num_legendary_actions |-> num_uses, legendary_actions_lair_bonus |-> bonus]

\* the habitat and treasure lists of the stat blocks
HabitatSamples == {<< >>, <<"FOREST", "ARCTIC">>}
TreasureSamples == {<< >>, <<"RELICS">>}

RenderCall(fn, out) == [fn |-> fn, out |-> out]

InitRender ==
    /\ stat_block \in
         {[StatBlock(tr, ac, ba, re, la, num_uses, bonus)
                EXCEPT !.habitat = habitat, !.treasure = treasure] :
            habitat \in HabitatSamples, treasure \in TreasureSamples,
            tr \in Lists(TraitEntries),
            ac \in Lists({Entry(<<"Bite">>, <<"fire", "damage", ".">>)}),
            ba \in Lists({Entry(<<"Dash">>, <<"fire", "damage", ".">>)}),
            re \in Lists({Entry(<<"Parry">>, <<"fire", "damage", ".">>)}),
            la \in Lists({Entry(<<"Slam">>, <<"fire", "damage", ".">>)}),
            num_uses \in {<< >>, <<3>>}, bonus \in {<< >>, <<1>>}}
    /\ render_ret = NoDocumentCall
    /\ AbilityIdle /\ ChallengeIdle /\ MacroIdle
    /\ QueryIdle /\ PersistIdle /\ EditorIdle

\* the habitat line is built, and the lists assigned, before any section is read
CallStatBlockMarkdown ==
    /\ render_ret = NoDocumentCall
    /\ render_ret' = RenderCall("hb_v3_markdown", stat_block_hb_v3_markdown(stat_block))
    /\ stat_block' = habitat_and_treasure_hb_v3_markdown(stat_block).block
    /\ UNCHANGED <<abilityVars, challengeVars, macroVars, queryVars, persistVars,
                   editorVars>>

CallHabitatStr ==
    /\ render_ret = NoDocumentCall
    /\ render_ret' = RenderCall("habitat_str", TextReturn(habitat_str(stat_block).text))
    /\ stat_block' = habitat_str(stat_block).block
    /\ UNCHANGED <<abilityVars, challengeVars, macroVars, queryVars, persistVars,
                   editorVars>>

CallTreasureStr ==
    /\ render_ret = NoDocumentCall
    /\ render_ret' = RenderCall("treasure_str", TextReturn(treasure_str(stat_block).text))
    /\ stat_block' = treasure_str(stat_block).block
    /\ UNCHANGED <<abilityVars, challengeVars, macroVars, queryVars, persistVars,
                   editorVars>>

RenderReturnToCaller ==
    /\ render_ret # NoDocumentCall
    /\ render_ret' = NoDocumentCall
    /\ UNCHANGED <<abilityVars, challengeVars, macroVars, queryVars, persistVars,
                   stat_block, editorVars>>

NextRender ==
    \/ CallStatBlockMarkdown
    \/ CallHabitatStr
    \/ CallTreasureStr
    \/ RenderReturnToCaller

SpecRender == InitRender /\ [][NextRender]_vars

(***************************************************************************)
(* Properties of the document                                               *)
(***************************************************************************)
\* the tokens of a text
Tokens(text) == {text[i] : i \in 1..Len(text)}

\* the lists of the stat block by the heading of their section
ListOf(heading) ==
    CASE heading = "### Traits" -> stat_block.traits
      [] heading = "### Actions" -> stat_block.actions
      [] heading = "### Bonus Actions" -> stat_block.bonus_actions
      [] heading = "### Reactions" -> stat_block.reactions
      [] heading = "### Legendary Actions" -> stat_block.legendary_actions

Headings ==
    {"### Traits", "### Actions", "### Bonus Actions", "### Reactions",
     "### Legendary Actions"}

\* how often a token occurs in a text
Occurrences(token, text) == Cardinality({i \in 1..Len(text) : text[i] = token})

\* C18: in the rendered document each of the five sections is left out when its
\* list is empty and is rendered with all its entries when its list is not empty,
\* whatever the other fields of the stat block are.
C18_SectionsFollowLists ==
    (render_ret.fn = "hb_v3_markdown" /\ render_ret.out.status = "return") =>
        /\ \A heading \in Headings :
                /\ heading \in Tokens(render_ret.out.text)
                        <=> ListOf(heading) # << >>
                /\ \A i \in 1..Len(ListOf(heading)) :
                        Occurrences(ListOf(heading)[i].title[1], render_ret.out.text)
                            = Cardinality({j \in 1..Len(ListOf(heading)) :
                                  ListOf(heading)[j].title = ListOf(heading)[i].title})

\* C27: rendering (habitat_str, treasure_str, hb_v3_markdown) leaves every field
\* of the stat block unchanged; an empty habitat or treasure list is still empty
\* after rendering.
C27_RenderingLeavesStatBlock ==
    [][render_ret' # NoDocumentCall => stat_block' = stat_block]_vars

(***************************************************************************)
(* data/languages.py: the Languages line.  values is the dict from Language  *)
(* members to LanguageProficiency members, telepathy the pair of the flag    *)
(* and the range; a text is a sequence of tokens.                            *)
(***************************************************************************)
\* the members of Language used here, in the order of their lower-cased names
LanguageOrder == <<"COMMON", "ELVISH", "GIANT">>

\* sorted([l for l, lp in self.values.items() if lp == proficiency],
\*        key=lambda x: x.name.lower())
sorted_languages(values, proficiency) ==
    SelectSeq(LanguageOrder,
              LAMBDA l : l \in DOMAIN values /\ values[l] = proficiency)

\* ", ".join(strs)
join_comma(strs) ==
    [i \in 1..(IF strs = << >> THEN 0 ELSE 2 * Len(strs) - 1) |->
        IF i % 2 = 1 THEN strs[(i + 1) \div 2] ELSE ", "]

\* f"telepathy {self.telepathy[1]} ft."
telepathy_str(range) == "telepathy " \o ToString(range) \o " ft."

\* Languages.display_str
languages_display_str(languages) ==
    LET sorted_spoken_languages == sorted_languages(languages.values, "SPEAKS")
        sorted_spoken_languages_strs ==
            [i \in 1..Len(sorted_spoken_languages) |->
                display_name(sorted_spoken_languages[i])]
        sorted_understood_languages ==
            sorted_languages(languages.values, "UNDERSTANDS")
        sorted_understood_languages_strs ==
            [i \in 1..Len(sorted_understood_languages) |->
                "Understands " \o display_name(sorted_understood_languages[i])
                    \o " but can't speak"]
        languages_str ==
            join_comma(sorted_spoken_languages_strs \o sorted_understood_languages_strs)
    IN  IF languages.telepathy[1]
        THEN IF languages_str # << >>
             THEN languages_str \o <<"; ", telepathy_str(languages.telepathy[2])>>
             ELSE <<telepathy_str(languages.telepathy[2])>>
        ELSE languages_str

\* Languages.hb_v3_markdown
languages_hb_v3_markdown(languages) ==
    IF languages.values = << >> THEN << >>
    ELSE <<"**Languages** :: ">> \o languages_display_str(languages)

\* the dicts of the Languages under test
LanguageDicts ==
    UNION {[D -> {"SPEAKS", "UNDERSTANDS"}] :
            D \in SUBSET {LanguageOrder[i] : i \in 1..Len(LanguageOrder)}}

\* the ranges of telepathy under test
TelepathyRanges == {0, 60, 120}

InitLanguages ==
    /\ obj \in {[cls |-> "Languages", values |-> values, telepathy |-> <<on, range>>] :
                    values \in LanguageDicts, on \in BOOLEAN,
                    range \in TelepathyRanges}
    /\ persist_ret = NoDocumentCall
    /\ RenderIdle
    /\ AbilityIdle /\ ChallengeIdle /\ MacroIdle
    /\ QueryIdle /\ EditorIdle

CallLanguagesDisplayStr ==
    /\ render_ret = NoDocumentCall
    /\ render_ret' = RenderCall("display_str", TextReturn(languages_display_str(obj)))
    /\ UNCHANGED <<abilityVars, challengeVars, macroVars, queryVars, persistVars,
                   stat_block, editorVars>>

CallLanguagesMarkdown ==
    /\ render_ret = NoDocumentCall
    /\ render_ret' = RenderCall("hb_v3_markdown",
                                TextReturn(languages_hb_v3_markdown(obj)))
    /\ UNCHANGED <<abilityVars, challengeVars, macroVars, queryVars, persistVars,
                   stat_block, editorVars>>

NextLanguages ==
    \/ CallLanguagesDisplayStr
    \/ CallLanguagesMarkdown
    \/ RenderReturnToCaller

SpecLanguages == InitLanguages /\ [][NextLanguages]_vars

(***************************************************************************)
(* Properties of the Languages line                                         *)
(***************************************************************************)
\* C30: whenever telepathy is enabled the rendered Languages line contains
\* "telepathy N ft." with the configured range, whether or not a language is
\* listed; the line is empty only when there are no languages and telepathy is
\* disabled.
C30_TelepathyRendered ==
    render_ret.fn = "hb_v3_markdown" =>
        /\ obj.telepathy[1] =>
                telepathy_str(obj.telepathy[2]) \in Tokens(render_ret.out.text)
        /\ render_ret.out.text = << >> =>
                (obj.values = << >> /\ ~obj.telepathy[1])

(***************************************************************************)
(* view/main_view.py: the editor.  editor holds the widgets that a           *)
(* characteristic is built from; listed holds the item data of the five      *)
(* list widgets, each item with the class of its list.                       *)
(***************************************************************************)
\* the most characteristics listed at once
MaxListed == 1

\* MainView.challenge_rating
MainView_challenge_rating(view) == ChallengeRating(view.rating, view.has_lair)

\* MainView.ability_scores: a new AbilityScores on every read, or the error of the
\* proficiency bonus
MainView_ability_scores(view) ==
    LET pb == ProficiencyBonus(MainView_challenge_rating(view))
    IN  IF pb.status = "raise" THEN pb
        ELSE Return(AbilityScores(pb.value, view.scores,
                        [a \in Ability |-> IF a \in view.proficient THEN "PROFICIENT"
                                           ELSE "NORMAL"]))

\* Trait(self.name, self.ability_scores, self.challenge_rating.proficiency_bonus,
\*       self.ability_scores.saving_throws, has_lair, title, description, ...)
new_characteristic(cls, view, t, d) ==
    LET a == MainView_ability_scores(view).value
    IN  Characteristic(cls,
            CombatCharacteristic(view.name, a, a.proficiency_bonus, t, d, << >>, << >>),
            saving_throws(a), view.has_lair,
            TraitFields("UNLIMITED", EmptyDict, EmptyDict))

\* an item of the list of class cls with the text t
existing_item(items, cls, t) ==
    \E idx \in 1..Len(items) : items[idx].cls = cls /\ items[idx].title = t

\* add_trait, add_action, add_bonus_action, add_reaction, add_legendary_action with
\* the title t and the description d typed into the fields of the list
add_characteristic(cls, t, d) ==
    /\ editor.enabled
    /\ IF t = << >> \/ d = << >> THEN UNCHANGED listed
       ELSE IF MainView_ability_scores(editor).status = "raise" THEN UNCHANGED listed
       ELSE IF existing_item(listed, cls, t) THEN UNCHANGED listed
       ELSE /\ Len(listed) < MaxListed
            /\ listed' = Append(listed, new_characteristic(cls, editor, t, d))
    /\ UNCHANGED <<abilityVars, challengeVars, macroVars, queryVars, persistVars,
                   renderVars, editor>>

TitleInputs == {<< >>, <<"Bite">>}
DescriptionInput == <<"fire", "damage", ".">>

add_trait == \E t \in TitleInputs : add_characteristic("Trait", t, DescriptionInput)
add_action == \E t \in TitleInputs : add_characteristic("Action", t, DescriptionInput)
add_bonus_action ==
    \E t \in TitleInputs : add_characteristic("BonusAction", t, DescriptionInput)
add_reaction ==
    \E t \in TitleInputs : add_characteristic("Reaction", t, DescriptionInput)
add_legendary_action ==
    \E t \in TitleInputs : add_characteristic("LegendaryAction", t, DescriptionInput)

\* _handler_ctx_menu_textedits, Delete: the item leaves its list
ctx_menu_delete(row) ==
    /\ editor.enabled
    /\ row \in 1..Len(listed)
    /\ listed' = [i \in 1..(Len(listed) - 1) |->
                        IF i < row THEN listed[i] ELSE listed[i + 1]]
    /\ UNCHANGED <<abilityVars, challengeVars, macroVars, queryVars, persistVars,
                   renderVars, editor>>

\* the user edits the name: _handler_textedit_availability enables the lists
\* exactly when the name is not empty
lineedit_name_textChanged(text) ==
    /\ text # editor.name
    /\ editor' = [editor EXCEPT !.name = text, !.enabled = (text # << >>)]
    /\ UNCHANGED <<abilityVars, challengeVars, macroVars, queryVars, persistVars,
                   renderVars, listed>>

\* a plausible slip: the listed characteristics follow the challenge rating
spinbox_challenge_rating_setValue_linked(r) ==
    /\ r # editor.rating
    /\ editor' = [editor EXCEPT !.rating = r]
    /\ listed' = [i \in 1..Len(listed) |->
                    LET pb == ProficiencyBonus(ChallengeRating(r, editor.has_lair))
                    IN  IF pb.status = "raise" THEN listed[i]
                        ELSE [listed[i] EXCEPT !.proficiency_bonus = pb.value]]
    /\ UNCHANGED <<abilityVars, challengeVars, macroVars, queryVars, persistVars,
                   renderVars>>

\* the user sets the challenge rating, a Strength score, the Strength
\* proficiency checkbox: no handler is connected, only the widget changes
spinbox_challenge_rating_setValue(r) ==
    /\ r # editor.rating
    /\ editor' = [editor EXCEPT !.rating = r]
    /\ UNCHANGED <<abilityVars, challengeVars, macroVars, queryVars, persistVars,
                   renderVars, listed>>

spinbox_str_setValue(v) ==
    /\ v # editor.scores["STRENGTH"]
    /\ editor' = [editor EXCEPT !.scores["STRENGTH"] = v]
    /\ UNCHANGED <<abilityVars, challengeVars, macroVars, queryVars, persistVars,
                   renderVars, listed>>

checkbox_str_proficient_setChecked(checked) ==
    /\ checked # ("STRENGTH" \in editor.proficient)
    /\ editor' = [editor EXCEPT
                    !.proficient = IF checked THEN {"STRENGTH"} ELSE {}]
    /\ UNCHANGED <<abilityVars, challengeVars, macroVars, queryVars, persistVars,
                   renderVars, listed>>

\* the names, ratings and Strength scores the user enters
NameInputs == {<< >>, <<"ogre">>, <<"test", "goblin">>}
RatingInputs == {[num |-> 0, den |-> 1], [num |-> 9, den |-> 2], [num |-> 5, den |-> 1]}
StrengthInputs == {10, 16}

\* init_ui: empty name and lists, challenge rating 0, every score 10, no
\* checkbox checked
InitEditor ==
    /\ editor = [cls |-> "MainView", name |-> << >>, enabled |-> FALSE,
                 rating |-> [num |-> 0, den |-> 1], has_lair |-> FALSE,
                 scores |-> [a \in Ability |-> 10], proficient |-> {}]
    /\ listed = << >>
    /\ AbilityIdle /\ ChallengeIdle /\ MacroIdle
    /\ QueryIdle /\ PersistIdle /\ RenderIdle

NextEditor ==
    \/ add_trait
    \/ add_action
    \/ add_bonus_action
    \/ add_reaction
    \/ add_legendary_action
    \/ \E row \in 1..MaxListed + 1 : ctx_menu_delete(row)
    \/ \E text \in NameInputs : lineedit_name_textChanged(text)
    \/ \E r \in RatingInputs : spinbox_challenge_rating_setValue(r)
    \/ \E v \in StrengthInputs : spinbox_str_setValue(v)
    \/ \E checked \in BOOLEAN : checkbox_str_proficient_setChecked(checked)

SpecEditor == InitEditor /\ [][NextEditor]_vars

(***************************************************************************)
(* Properties of the editor                                                 *)
(***************************************************************************)
\* the parts of the editor a snapshot is taken from
SnapshotSources(view) == <<view.scores, view.proficient, view.rating, view.name>>

\* the snapshot of a listed characteristic
Snapshot(c) == <<c.ability_scores, c.proficiency_bonus, c.saving_throws>>

\* C20: the snapshot of ability scores, proficiency bonus and saving-throw tiers
\* of a characteristic is the editor's values when it is added, and every later
\* change of the editor's ability scores, proficiency checkboxes, challenge rating
\* or name leaves the snapshot of every listed characteristic unchanged.
C20_SnapshotsFixed ==
    [][/\ SnapshotSources(editor') # SnapshotSources(editor) =>
            /\ Len(listed') = Len(listed)
            /\ \A i \in 1..Len(listed) : Snapshot(listed'[i]) = Snapshot(listed[i])
       /\ Len(listed') = Len(listed) + 1 =>
            LET added == listed'[Len(listed')]
                tiers == [a \in Ability |-> IF a \in editor.proficient
                                            THEN "PROFICIENT" ELSE "NORMAL"]
            IN  /\ added.ability_scores.scores = editor.scores
                /\ added.ability_scores.proficiency_levels = tiers
                /\ added.saving_throws = tiers
                /\ added.proficiency_bonus =
                        (IF editor.rating.num >= 5 * editor.rating.den THEN 3 ELSE 2)
                /\ added.ability_scores.proficiency_bonus = added.proficiency_bonus
                /\ \A i \in 1..Len(listed) : listed'[i] = listed[i]]_vars

\* a characteristic added at challenge rating 0 with Strength 10 and no
\* proficiency is still listed with that snapshot after the editor was changed to
\* challenge rating 5, Strength 16, proficient
C20_Witness ==
    /\ editor.cls = "MainView"
    /\ editor.rating = [num |-> 5, den |-> 1]
    /\ editor.scores["STRENGTH"] = 16
    /\ editor.proficient = {"STRENGTH"}
    /\ \E i \in 1..Len(listed) :
            /\ listed[i].proficiency_bonus = 2
            /\ listed[i].ability_scores.scores["STRENGTH"] = 10
            /\ listed[i].saving_throws["STRENGTH"] = "NORMAL"

(***************************************************************************)
(* view/main_view.py: the title and description fields of the five lists,   *)
(* the context menu's Edit, the getters of the lists, the stat block the    *)
(* view builds and load_statblock.  editor.fields holds, for the class of  *)
(* each list, the texts of its title and description fields; render_ret     *)
(* holds the outcome of the last getter or load.                            *)
(***************************************************************************)
\* the classes of the five lists
ListClasses == DOMAIN CharacteristicClasses

\* the fields of every list empty
NoFields == [cls \in ListClasses |-> [title |-> << >>, description |-> << >>]]

\* the pressed signal of an add button: add_trait() and the four like it, reading
\* the fields of the list; an empty field returns early, the fields are cleared at
\* the end
add_pressed(cls) ==
    LET t == editor.fields[cls].title
        d == editor.fields[cls].description
    IN  /\ editor.enabled
        /\ render_ret = NoDocumentCall
        /\ IF t = << >> \/ d = << >> THEN UNCHANGED <<editor, listed>>
           ELSE IF MainView_ability_scores(editor).status = "raise"
           THEN UNCHANGED <<editor, listed>>
           ELSE /\ IF existing_item(listed, cls, t) THEN UNCHANGED listed
                   ELSE /\ Len(listed) < MaxListed
                        /\ listed' = Append(listed, new_characteristic(cls, editor, t, d))
                /\ editor' = [editor EXCEPT !.fields[cls] = NoFields[cls]]
        /\ UNCHANGED <<abilityVars, challengeVars, macroVars, queryVars, persistVars,
                       renderVars>>

\* _handler_ctx_menu_textedits, Edit: the fields of the list take the title and
\* the description of the item; the item stays in its list
ctx_menu_edit(row) ==
    /\ editor.enabled
    /\ render_ret = NoDocumentCall
    /\ row \in 1..Len(listed)
    /\ editor' = [editor EXCEPT !.fields[listed[row].cls] =
                        [title |-> listed[row].title,
                         description |-> listed[row].description]]
    /\ UNCHANGED <<abilityVars, challengeVars, macroVars, queryVars, persistVars,
                   renderVars, listed>>

\* the user fills the fields of one list at a time
OthersEmpty(cls) == \A other \in ListClasses \ {cls} : editor.fields[other] = NoFields[other]

\* the user types into the title field of a list
lineedit_title_setText(cls, text) ==
    /\ editor.enabled
    /\ render_ret = NoDocumentCall
    /\ OthersEmpty(cls)
    /\ text # editor.fields[cls].title
    /\ editor' = [editor EXCEPT !.fields[cls].title = text]
    /\ UNCHANGED <<abilityVars, challengeVars, macroVars, queryVars, persistVars,
                   renderVars, listed>>

\* the user types into the description field of a list
textedit_setText(cls, text) ==
    /\ editor.enabled
    /\ render_ret = NoDocumentCall
    /\ OthersEmpty(cls)
    /\ text # editor.fields[cls].description
    /\ editor' = [editor EXCEPT !.fields[cls].description = text]
    /\ UNCHANGED <<abilityVars, challengeVars, macroVars, queryVars, persistVars,
                   renderVars, listed>>

\* isinstance(item, base): the five classes derive from CombatCharacteristic and
\* not from one another
IsInstance(cls, base) == cls = base \/ base = "CombatCharacteristic"

\* a getter of a list: the data of its items, each asserted to be of class base
list_getter(items, cls, base) ==
    LET retval == SelectSeq(items, LAMBDA c : c.cls = cls)
    IN  IF \E i \in 1..Len(retval) : ~IsInstance(retval[i].cls, base)
        THEN Raise("AssertionError")
        ELSE Return(retval)

\* MainView.traits, actions, bonus_actions, reactions, legendary_actions
MainView_traits(items) == list_getter(items, "Trait", "Trait")
MainView_actions(items) == list_getter(items, "Action", "Action")
MainView_bonus_actions(items) == list_getter(items, "BonusAction", "Action")
MainView_reactions(items) == list_getter(items, "Reaction", "Reaction")
MainView_legendary_actions(items) ==
    list_getter(items, "LegendaryAction", "LegendaryAction")

\* the getter of the name
Getter(fn, items) ==
    CASE fn = "traits" -> MainView_traits(items)
      [] fn = "actions" -> MainView_actions(items)
      [] fn = "bonus_actions" -> MainView_bonus_actions(items)
      [] fn = "reactions" -> MainView_reactions(items)
      [] fn = "legendary_actions" -> MainView_legendary_actions(items)

ListGetters == {"traits", "actions", "bonus_actions", "reactions", "legendary_actions"}

\* the fields of StatBlock without a default
StatBlockRequired ==
    {"name", "epithet", "description", "habitat", "treasure", "size",
     "creature_type", "tags", "alignment", "armor_class", "speed",
     "ability_scores", "skills", "vulnerabilities", "resistances", "immunities",
     "gear", "senses", "languages", "challenge_rating", "traits", "actions",
     "bonus_actions", "reactions", "legendary_actions"}

\* the fields of StatBlock with a default
StatBlockOptional ==
    {"is_swarm", "num_legendary_resistances", "legendary_resistances_lair_bonus",
     "num_legendary_actions", "legendary_actions_lair_bonus"}

\* the generated __init__ of the dataclass StatBlock, called with keywords
StatBlock_init(keywords) ==
    IF keywords \ (StatBlockRequired \cup StatBlockOptional) # {} THEN Raise("TypeError")
    ELSE IF StatBlockRequired \ keywords # {} THEN Raise("TypeError")
    ELSE Return(keywords)

\* the keywords that MainView.statblock passes
StatBlockKeywords ==
    {"name", "challenge_rating", "habitat", "treasure", "size", "creature_type",
     "tags", "alignment", "armor_class", "speed", "ability_scores", "skills",
     "vulnerabilities", "resistances", "immunities", "gear", "senses", "languages",
     "traits", "actions", "bonus_actions", "reactions", "legendary_actions"}

\* MainView.statblock: the arguments are read in the order they are written, the
\* first that raises ends the call
MainView_statblock(view, items) ==
    IF MainView_ability_scores(view).status = "raise"
    THEN MainView_ability_scores(view)
    ELSE IF \E fn \in ListGetters : Getter(fn, items).status = "raise"
    THEN Raise("AssertionError")
    ELSE StatBlock_init(StatBlockKeywords)

ViewCall(fn, argument, out) == [fn |-> fn, argument |-> argument, out |-> out]

\* a getter of a list is read
CallListGetter(fn) ==
    /\ render_ret = NoDocumentCall
    /\ render_ret' = ViewCall(fn, NoObject, Getter(fn, listed))
    /\ UNCHANGED <<abilityVars, challengeVars, macroVars, queryVars, persistVars,
                   stat_block, editorVars>>

\* MainView.statblock is read, as the save, export and query handlers do
CallStatblock ==
    /\ render_ret = NoDocumentCall
    /\ render_ret' = ViewCall("statblock", NoObject, MainView_statblock(editor, listed))
    /\ UNCHANGED <<abilityVars, challengeVars, macroVars, queryVars, persistVars,
                   stat_block, editorVars>>

\* add_trait(new_trait=...) and the four like it: the title variable is bound only
\* when no characteristic is passed, and the search for an existing item reads it
\* as soon as the list holds an item
add_passed(items, cls, new) ==
    IF \E idx \in 1..Len(items) : items[idx].cls = cls
    THEN [items |-> items, out |-> Raise("NameError")]
    ELSE [items |-> Append(items, new), out |-> ReturnNone]

\* the five loops of load_statblock over the characteristics, in order
RECURSIVE load_characteristics(_, _)
load_characteristics(items, characteristics) ==
    IF characteristics = << >> THEN [items |-> items, out |-> ReturnNone]
    ELSE LET added == add_passed(items, characteristics[1].cls, characteristics[1])
         IN  IF added.out.status = "raise" THEN added
             ELSE load_characteristics(added.items, Tail(characteristics))

\* the characteristics of a stat block in the order load_statblock adds them
Characteristics(block) ==
    block.traits \o block.actions \o block.bonus_actions \o block.reactions
        \o block.legendary_actions

\* load_statblock: init_ui empties the lists, resets the widgets and clears the
\* description fields other than the trait's; then the widgets take the values of
\* the stat block and the characteristics are added
load_statblock(block) ==
    LET loaded == load_characteristics(<< >>, Characteristics(block))
    IN  /\ render_ret = NoDocumentCall
        /\ editor' = [editor EXCEPT
                        !.name = block.name, !.enabled = (block.name # << >>),
                        !.rating = block.rating, !.has_lair = block.has_lair,
                        !.scores = block.scores, !.proficient = block.proficient,
                        !.fields = [cls \in ListClasses |->
                                        IF cls = "Trait" THEN editor.fields[cls]
                                        ELSE [editor.fields[cls] EXCEPT
                                                !.description = << >>]]]
        /\ listed' = loaded.items
        /\ render_ret' = ViewCall("load_statblock", block, loaded.out)
        /\ UNCHANGED <<abilityVars, challengeVars, macroVars, queryVars, persistVars,
                       stat_block>>

(***************************************************************************)
(* The view under test                                                      *)
(***************************************************************************)
\* the most characteristics of one kind in a loaded stat block
MaxLoaded == 2

\* the view the loaded stat blocks were saved from
SavedView ==
    [cls |-> "MainView", name |-> <<"ogre">>, enabled |-> TRUE,
     rating |-> [num |-> 0, den |-> 1], has_lair |-> FALSE,
     scores |-> [a \in Ability |-> 10], proficient |-> {}, fields |-> NoFields]

\* lists of up to n characteristics of a class with the titles, no title twice
Saved(cls, titles, n) ==
    {saved \in UNION {[1..k -> {new_characteristic(cls, SavedView, t,
                                                   <<"fire", "damage", ".">>) :
                                    t \in titles}] : k \in 0..n} :
        \A i, j \in 1..Len(saved) : saved[i].title = saved[j].title => i = j}

LoadedStatBlocks ==
    {[name |-> SavedView.name, rating |-> SavedView.rating,
      has_lair |-> SavedView.has_lair, scores |-> SavedView.scores,
      proficient |-> SavedView.proficient,
      traits |-> tr, actions |-> ac, bonus_actions |-> << >>,
      reactions |-> << >>, legendary_actions |-> la] :
        tr \in Saved("Trait", {<<"Keen", "Smell">>, <<"Bite">>}, MaxLoaded),
        ac \in Saved("Action", {<<"Bite">>}, 1),
        la \in Saved("LegendaryAction", {<<"Slam">>}, MaxLoaded)}

\* the descriptions the user types
DescriptionInputs == {<< >>, <<"fire", "damage", ".">>, <<"cold", "damage", ".">>}

InitView ==
    /\ editor = [cls |-> "MainView", name |-> << >>, enabled |-> FALSE,
                 rating |-> [num |-> 0, den |-> 1], has_lair |-> FALSE,
                 scores |-> [a \in Ability |-> 10], proficient |-> {},
                 fields |-> NoFields]
    /\ listed = << >>
    /\ AbilityIdle /\ ChallengeIdle /\ MacroIdle
    /\ QueryIdle /\ PersistIdle /\ RenderIdle

NextView ==
    \/ \E cls \in ListClasses : add_pressed(cls)
    \/ \E row \in 1..MaxListed + 1 : ctx_menu_edit(row)
    \/ \E row \in 1..MaxListed + 1 : ctx_menu_delete(row)
    \/ \E cls \in ListClasses, text \in TitleInputs : lineedit_title_setText(cls, text)
    \/ \E cls \in ListClasses, text \in DescriptionInputs : textedit_setText(cls, text)
    \/ \E text \in {<< >>, <<"ogre">>} : lineedit_name_textChanged(text)
    \/ \E fn \in ListGetters : CallListGetter(fn)
    \/ CallStatblock
    \/ \E block \in LoadedStatBlocks : load_statblock(block)
    \/ RenderReturnToCaller

SpecView == InitView /\ [][NextView]_vars

(***************************************************************************)
(* Properties of the view                                                   *)
(***************************************************************************)
\* C21: editing a listed characteristic re-creates it: after Edit, a changed
\* description and the add button pressed with the unchanged title, the list
\* holds one characteristic with that title, carrying the edited description and
\* a snapshot of the editor's current ability scores.
C21_EditRecreates ==
    [][\A cls \in ListClasses :
        (/\ add_pressed(cls)
         /\ editor.fields[cls].description # << >>
         /\ existing_item(listed, cls, editor.fields[cls].title)) =>
            /\ Cardinality({i \in 1..Len(listed') :
                    /\ listed'[i].cls = cls
                    /\ listed'[i].title = editor.fields[cls].title}) = 1
            /\ \A i \in 1..Len(listed') :
                    (listed'[i].cls = cls
                        /\ listed'[i].title = editor.fields[cls].title) =>
                        /\ listed'[i].description = editor.fields[cls].description
                        /\ listed'[i].ability_scores =
                                MainView_ability_scores(editor).value]_vars

\* C25: load_statblock leaves the editor listing exactly the stat block's traits,
\* actions, bonus actions, reactions and legendary actions, in order, also with two
\* or more of one kind; none is dropped and loading does not fail.
C25_LoadListsAll ==
    render_ret.fn = "load_statblock" =>
        /\ render_ret.out.status # "raise"
        /\ listed = Characteristics(render_ret.argument)

\* C26: every type assertion of the getters of the lists holds in every state
\* reached by adding and deleting; after add_bonus_action the bonus_actions getter
\* returns the bonus action.
C26_GetterAssertionsHold ==
    render_ret.fn \in ListGetters =>
        /\ render_ret.out.status = "return"
        /\ render_ret.fn = "bonus_actions" =>
                render_ret.out.value = SelectSeq(listed, LAMBDA c : c.cls = "BonusAction")

\* C29: the stat block the view builds supplies every field of StatBlock that has
\* no default, so that building it never fails for a missing field.
C29_StatBlockBuilt ==
    render_ret.fn = "statblock" =>
        /\ render_ret.out.status = "return"
        /\ StatBlockRequired \subseteq render_ret.out.value

(***************************************************************************)
(* data/action.py: the predefined templates and their catalog.  A template  *)
(* is the record of its kind, label and name; a description plays no part   *)
(* in the catalog and is left out.                                          *)
(***************************************************************************)
\* Ability.abbreviation: self.name.upper()[:3]
abbreviation(ability) ==
    CASE ability = "STRENGTH" -> "STR"
      [] ability = "DEXTERITY" -> "DEX"
      [] ability = "CONSTITUTION" -> "CON"
      [] ability = "INTELLIGENCE" -> "INT"
      [] ability = "WISDOM" -> "WIS"
      [] ability = "CHARISMA" -> "CHA"

CharacteristicTemplate(ctype, label, name) ==
    [ctype |-> ctype, label |-> label, name |-> name]

TraitTemplate(label, name) == CharacteristicTemplate("TRAIT", label, name)

BonusActionTemplate(label, name) == CharacteristicTemplate("BONUS_ACTION", label, name)

ReactionTemplate(label, name) == CharacteristicTemplate("REACTION", label, name)

\* the __post_init__ of the three attack-roll templates: an empty name becomes
\* the roll with the ability's abbreviation, an empty label becomes the name
attack_roll_post_init(roll, ctype, ability, label, name) ==
    LET named == IF name = "" THEN roll \o " (" \o abbreviation(ability) \o ")"
                 ELSE name
    IN  CharacteristicTemplate(ctype, IF label = "" THEN named ELSE label, named)

MeleeAttackRollTemplate(ctype, ability, label, name) ==
    attack_roll_post_init("Melee Attack Roll", ctype, ability, label, name)

RangedAttackRollTemplate(ctype, ability, label, name) ==
    attack_roll_post_init("Ranged Attack Roll", ctype, ability, label, name)

MeleeOrRangedAttackRollTemplate(ctype, ability, label, name) ==
    attack_roll_post_init("Melee or Ranged Attack Roll", ctype, ability, label, name)

\* the name defaults to "Spellcasting", the label is required
SpellcastingTemplate(ctype, ability, label) ==
    CharacteristicTemplate(ctype, label, "Spellcasting")

\* a plausible slip: the targeted saving throw named like the plain one
SavingThrowTemplate_plain(ctype, ability, targeted) ==
    CharacteristicTemplate(ctype, capitalize(ability) \o " Saving Throw",
                           capitalize(ability) \o " Saving Throw")

\* SavingThrowTemplate.__post_init__: name and label are always set
SavingThrowTemplate(ctype, ability, targeted) ==
    LET named == IF targeted THEN capitalize(ability) \o " Saving Throw (Targeted)"
                 ELSE capitalize(ability) \o " Saving Throw"
    IN  CharacteristicTemplate(ctype, named, named)

MultiattackTemplate ==
    CharacteristicTemplate("ACTION", "Multiattack (Action)", "Multiattack")

\* ALL_CHARACTERISTIC_TEMPLATES, the descriptions left out
ALL_CHARACTERISTIC_TEMPLATES ==
    <<TraitTemplate("Amphibious", "Amphibious"),
      TraitTemplate("Aversion to Fire", "Aversion to Fire"),
      TraitTemplate("Battle Ready", "Battle Ready"),
      TraitTemplate("Beast Whisperer", "Beast Whisperer"),
      TraitTemplate("Death Burst", "Death Burst"),
      TraitTemplate("Death Jinx", "Death Jinx"),
      TraitTemplate("Demonic Restoration", "Demonic Restoration"),
      TraitTemplate("Dimensional Disruption", "Dimensional Disruption"),
      TraitTemplate("Disciple of the Nine Hells", "Disciple of the Nine Hells"),
      TraitTemplate("Disintegration", "Disintegration"),
      TraitTemplate("Emissary of Juiblex", "Emissary of Juiblex"),
      TraitTemplate("Fey Ancestry", "Fey Ancestry"),
      TraitTemplate("Flyby", "Flyby"),
      TraitTemplate("Forbiddance", "Forbiddance"),
      TraitTemplate("Gloom Shroud", "Gloom Shroud"),
      TraitTemplate("Incorporeal Movement", "Incorporeal Movement"),
      TraitTemplate("Light", "Light"),
      TraitTemplate("Magic Resistance", "Magic Resistance"),
      TraitTemplate("Mimicry", "Mimicry"),
      TraitTemplate("Pack Tactics", "Pack Tactics"),
      TraitTemplate("Poison Tolerant", "Poison Tolerant"),
      TraitTemplate("Regeneration", "Regeneration"),
      TraitTemplate("Resonant Connection", "Resonant Connection"),
      TraitTemplate("Siege Monster", "Siege Monster"),
      TraitTemplate("Slaad Host", "Slaad Host"),
      TraitTemplate("Steadfast", "Steadfast"),
      TraitTemplate("Sunlight Sensitivity", "Sunlight Sensitivity"),
      TraitTemplate("Swarm", "Swarm"),
      TraitTemplate("Telepathic Bond", "Telepathic Bond"),
      TraitTemplate("Telepathic Shroud", "Telepathic Shroud"),
      TraitTemplate("Ventriloquism", "Ventriloquism"),
      TraitTemplate("Warrior's Wrath", "Warrior's Wrath"),
      TraitTemplate("Wild Talent", "Wild Talent"),
      TraitTemplate("Ritual Scarrring", "Ritual Scarring"),
      TraitTemplate("Blood Channeling", "Blood Channeling"),
      TraitTemplate("Hemomantic Bond", "Hemomantic Bond"),
      TraitTemplate("Pulse of Mortifera", "Pulse of Mortifera"),
      TraitTemplate("Twisted Immune Response", "Twisted Immune Response"),
      TraitTemplate("Wretching Touch", "Wretching Touch"),
      TraitTemplate("Overclocked Core", "Overclocked Core"),
      TraitTemplate("Aether Dampening Field", "Aether Dampening Field"),
      TraitTemplate("Ablative Armor", "Ablative Armor"),
      MultiattackTemplate,
      MeleeAttackRollTemplate("ACTION", "STRENGTH", "", ""),
      MeleeAttackRollTemplate("ACTION", "DEXTERITY", "", ""),
      RangedAttackRollTemplate("ACTION", "STRENGTH", "", ""),
      RangedAttackRollTemplate("ACTION", "DEXTERITY", "", ""),
      MeleeOrRangedAttackRollTemplate("ACTION", "STRENGTH", "", ""),
      MeleeOrRangedAttackRollTemplate("ACTION", "DEXTERITY", "", ""),
      SpellcastingTemplate("ACTION", "INTELLIGENCE", "Spellcasting (INT)"),
      SpellcastingTemplate("ACTION", "WISDOM", "Spellcasting (WIS)"),
      SpellcastingTemplate("ACTION", "CHARISMA", "Spellcasting (CHA)"),
      SavingThrowTemplate("ACTION", "STRENGTH", FALSE),
      SavingThrowTemplate("ACTION", "STRENGTH", TRUE),
      SavingThrowTemplate("ACTION", "DEXTERITY", FALSE),
      SavingThrowTemplate("ACTION", "DEXTERITY", TRUE),
      SavingThrowTemplate("ACTION", "CONSTITUTION", FALSE),
      SavingThrowTemplate("ACTION", "CONSTITUTION", TRUE),
      SavingThrowTemplate("ACTION", "INTELLIGENCE", FALSE),
      SavingThrowTemplate("ACTION", "INTELLIGENCE", TRUE),
      SavingThrowTemplate("ACTION", "WISDOM", FALSE),
      SavingThrowTemplate("ACTION", "WISDOM", TRUE),
      SavingThrowTemplate("ACTION", "CHARISMA", FALSE),
      SavingThrowTemplate("ACTION", "CHARISMA", TRUE),
      MeleeOrRangedAttackRollTemplate("ACTION", "DEXTERITY", "Dagger", "Dagger"),
      MeleeAttackRollTemplate("ACTION", "STRENGTH", "Greatsword", "Greatsword"),
      MeleeAttackRollTemplate("ACTION", "STRENGTH", "Shortsword", "Shortsword"),
      MeleeAttackRollTemplate("ACTION", "STRENGTH", "Longsword", "Longsword"),
      MeleeAttackRollTemplate("ACTION", "STRENGTH", "Club", "Club"),
      MeleeAttackRollTemplate("ACTION", "STRENGTH", "Mace", "Mace"),
      MeleeAttackRollTemplate("ACTION", "STRENGTH", "Handaxe", "Handaxe"),
      MeleeAttackRollTemplate("ACTION", "STRENGTH", "Greataxe", "Greataxe"),
      MeleeAttackRollTemplate("ACTION", "STRENGTH", "Warhammer", "Warhammer"),
      MeleeAttackRollTemplate("ACTION", "STRENGTH", "Maul", "Maul"),
      MeleeAttackRollTemplate("ACTION", "STRENGTH", "Glaive", "Glaive"),
      MeleeAttackRollTemplate("ACTION", "DEXTERITY", "Rapier", "Rapier"),
      MeleeAttackRollTemplate("ACTION", "DEXTERITY", "Bite", "Bite"),
      MeleeAttackRollTemplate("ACTION", "DEXTERITY", "Bites (Swarm)", "Bites"),
      MeleeAttackRollTemplate("ACTION", "STRENGTH", "Claw", "Claw"),
      MeleeAttackRollTemplate("ACTION", "STRENGTH", "Gore", "Gore"),
      MeleeAttackRollTemplate("ACTION", "STRENGTH", "Hooves", "Hooves"),
      MeleeAttackRollTemplate("ACTION", "STRENGTH", "Slam", "Slam"),
      MeleeAttackRollTemplate("ACTION", "DEXTERITY", "Tentacles", "Tentacles"),
      MeleeAttackRollTemplate("ACTION", "STRENGTH", "Rend", "Rend"),
      RangedAttackRollTemplate("ACTION", "DEXTERITY", "Longbow", "Longbow"),
      RangedAttackRollTemplate("ACTION", "DEXTERITY", "Shortbow", "Shortbow"),
      RangedAttackRollTemplate("ACTION", "DEXTERITY", "Heavy Crossbow", "Heavy Crossbow"),
      RangedAttackRollTemplate("ACTION", "DEXTERITY", "Light Crossbow", "Light Crossbow"),
      RangedAttackRollTemplate("ACTION", "DEXTERITY", "Hand Crossbow", "Hand Crossbow"),
      BonusActionTemplate("Leap", "Leap"),
      ReactionTemplate("Parry", "Parry"),
      TraitTemplate("Legendary Resistance (???/Day, or ???/Day in Lair)", "Legendary Resistance ([LR]/Day, or [LRL]/Day in Lair)")>>

\* CUSTOM_TEMPLATES, the descriptions left out
CUSTOM_TEMPLATES ==
    <<TraitTemplate("Corrupting Presence", "Corrupting Presence"),
      TraitTemplate("Dreadful Clarity", "Dreadful Clarity"),
      TraitTemplate("Night Veil", "Night Veil"),
      TraitTemplate("Grisly Rebirth", "Grisly Rebirth"),
      TraitTemplate("Eldritch Reflection", "Eldritch Reflection"),
      TraitTemplate("Parasitic Horror", "Parasitic Horror"),
      TraitTemplate("Weeping Wounds", "Weeping Wounds"),
      TraitTemplate("Blighted Ground", "Blighted Ground"),
      TraitTemplate("Duskrot Carrier", "Duskrot Carrier"),
      TraitTemplate("Stygian Symbiosis", "Stygian Symbiosis"),
      TraitTemplate("Skinwalker's Guise", "Skinwalker's Guise"),
      TraitTemplate("Aura of Agony", "Aura of Agony"),
      TraitTemplate("Veinburst", "Veinburst"),
      ReactionTemplate("Ghastly Imitation", "Ghastly Imitation")>>

\* CharacteristicType
CharacteristicType == {"TRAIT", "ACTION", "BONUS_ACTION", "REACTION", "LEGENDARY_ACTION"}

\* ALL_CHARACTERISTIC_TEMPLATES + CUSTOM_TEMPLATES
AllTemplates == ALL_CHARACTERISTIC_TEMPLATES \o CUSTOM_TEMPLATES

\* get_all_templates(): {template.label: template for template in ...}; of two
\* templates with one label the later takes the entry
get_all_templates ==
    [label \in {AllTemplates[i].label : i \in 1..Len(AllTemplates)} |->
        AllTemplates[CHOOSE i \in 1..Len(AllTemplates) :
                        /\ AllTemplates[i].label = label
                        /\ \A j \in (i + 1)..Len(AllTemplates) :
                                AllTemplates[j].label # label]]

\* all_templates[label]
dict_getitem(all_templates, label) ==
    IF label \in DOMAIN all_templates THEN Return(all_templates[label])
    ELSE Raise("KeyError")

\* [t for t in all_templates.values() if t.ctype == ctype], as a set
choices(all_templates, ctype) ==
    {all_templates[label] : label \in {l \in DOMAIN all_templates :
                                            all_templates[l].ctype = ctype}}

\* the labels looked up: every label of the catalog, a name that is no label and a
\* word that is neither
LookupLabels ==
    DOMAIN get_all_templates \cup {"Spellcasting", "Multiattack", "Nope"}

InitTemplates ==
    /\ AbilityIdle /\ ChallengeIdle /\ MacroIdle
    /\ DocumentIdle

CallGetTemplate(label) ==
    /\ render_ret = NoDocumentCall
    /\ render_ret' = ViewCall("get", label, dict_getitem(get_all_templates, label))
    /\ UNCHANGED <<abilityVars, challengeVars, macroVars, queryVars, persistVars,
                   stat_block, editorVars>>

CallChoices(ctype) ==
    /\ render_ret = NoDocumentCall
    /\ render_ret' = ViewCall("choices", ctype, Return(choices(get_all_templates, ctype)))
    /\ UNCHANGED <<abilityVars, challengeVars, macroVars, queryVars, persistVars,
                   stat_block, editorVars>>

NextTemplates ==
    \/ \E label \in LookupLabels : CallGetTemplate(label)
    \/ \E ctype \in CharacteristicType : CallChoices(ctype)
    \/ RenderReturnToCaller

SpecTemplates == InitTemplates /\ [][NextTemplates]_vars

(***************************************************************************)
(* Properties of the catalog                                                *)
(***************************************************************************)
\* C23: the labels of the predefined templates, built-in and custom together, are
\* pairwise distinct, so that the catalog has one entry per template; every
\* template is listed under exactly one of the five kinds; the lookup of a label
\* that is not in the catalog fails with a lookup error and returns no template.
C23_CatalogByLabel ==
    /\ render_ret.fn = "get" =>
            IF \E i \in 1..Len(AllTemplates) : AllTemplates[i].label = render_ret.argument
            THEN /\ render_ret.out.status = "return"
                 /\ Cardinality({i \in 1..Len(AllTemplates) :
                        AllTemplates[i].label = render_ret.argument}) = 1
                 /\ \E i \in 1..Len(AllTemplates) : AllTemplates[i] = render_ret.out.value
            ELSE render_ret.out = Raise("KeyError")
    /\ render_ret.fn = "choices" =>
            /\ \A i \in 1..Len(AllTemplates) :
                    /\ AllTemplates[i].ctype \in CharacteristicType
                    /\ AllTemplates[i] \in render_ret.out.value
                            <=> AllTemplates[i].ctype = render_ret.argument
            /\ Cardinality(DOMAIN get_all_templates) = Len(AllTemplates)
            /\ Len(AllTemplates) = 106

\* the name "Spellcasting", which three templates share and which is no label, was
\* looked up
C23_Witness ==
    /\ render_ret.fn = "get"
    /\ render_ret.argument = "Spellcasting"
    /\ render_ret.out = Raise("KeyError")

====
